---- MODULE Spec2Model ----
(***************************************************************************)
(* Authentication and session-lifecycle core of knowledgestore-api.        *)
(*                                                                         *)
(* State: the users table, the refresh-token table, the wall clock, the    *)
(* signed tokens that clients hold, and the last request with its          *)
(* response.  One action per HTTP handler / middleware; every handler runs *)
(* to completion (find, mutate, send email, respond) in one step, and the  *)
(* next request is served once the response has been delivered.            *)
(*                                                                         *)
(* The history variable preReset holds the refresh tokens that a           *)
(* successful password reset found issued to its user.                     *)
(*                                                                         *)
(* A second specification, SpecRace, serves verifyEmail and resetPassword  *)
(* as the two awaited store calls they are (findFirst, then update), so    *)
(* that requests overlap; calls holds the requests served that way.        *)
(* SpecSessions and SpecLogins follow the sessions of several users and of *)
(* one user with bounds per user, SpecProtected the handlers behind the    *)
(* Request Authenticator, and SpecPolicy the password policy checker       *)
(* called on its own.  SpecResetRace serves login and resetPassword as the *)
(* sequences of their awaited store calls, so that a login overlaps a      *)
(* reset.  SpecTenants and SpecKnowledge follow the routers of categories  *)
(* and of knowledge items, whose rows are kept in categories and           *)
(* knowledgeItems; SpecKnowledge starts from a store that holds two        *)
(* accounts and their items.                                               *)
(*                                                                         *)
(* Time is counted in seconds (the resolution of the JWT iat/exp claims).  *)
(* Strings that the code inspects character by character (passwords) are   *)
(* tuples of one-character strings.  A nullable column is represented by a *)
(* value of the column's own type: 0 for an opaque token, -1 for a date,   *)
(* "" for googleId, NoHash for the password hash.                          *)
(***************************************************************************)
EXTENDS Integers, Sequences, FiniteSets, Bags, TLC

(***************************************************************************)
(* Bounds of the exploration.                                              *)
(***************************************************************************)
MaxUsers == 2
MaxTicks == 1
MaxIssued == 2
MaxRows == 1
MaxOpaque == 2
MaxCalls == 2
MaxSessions == 2
MaxTail == 4
MaxCategories == 2
MaxItems == 1

(***************************************************************************)
(* Program constants, in seconds.                                          *)
(***************************************************************************)
JwtAccessExpires == 900
JwtRefreshExpires == 604800
RefreshRowTTL == 604800
VerificationTTL == 86400
ResetTTL == 3600
MinPasswordLen == 8
SchemaMinPasswordLen == 8

(***************************************************************************)
(* Request inputs.                                                         *)
(***************************************************************************)
EmailA == [local |-> "ann", domain |-> "example.com"]
EmailB == [local |-> "bob", domain |-> "example.com"]
EmailBad == [local |-> "ann", domain |-> ""]
Emails == {EmailA, EmailB}

PwValid == <<"V", "a", "l", "i", "d", "1", "2", "3", "!">>
PwOther == <<"O", "t", "h", "e", "r", "4", "5", "6", "?">>
PwShort == <<"s", "h", "o", "r", "t", "1", "!">>
PwLower == <<"a", "l", "l", "l", "o", "w", "e", "r", "1", "!">>
PwEmpty == <<>>


LowerChars == {"a", "b", "c", "d", "e", "f", "g", "h", "i", "j", "k", "l", "m",
               "n", "o", "p", "q", "r", "s", "t", "u", "v", "w", "x", "y", "z"}
UpperChars == {"A", "B", "C", "D", "E", "F", "G", "H", "I", "J", "K", "L", "M",
               "N", "O", "P", "Q", "R", "S", "T", "U", "V", "W", "X", "Y", "Z"}
DigitChars == {"0", "1", "2", "3", "4", "5", "6", "7", "8", "9"}
SpecialChars == {"@", "$", "!", "%", "*", "?", "&"}

VARIABLES users, refreshTokens, now, ticks, issued, nextOpaque, last,
          preReset, calls, categories, knowledgeItems

vars == <<users, refreshTokens, now, ticks, issued, nextOpaque, last,
          preReset, calls, categories, knowledgeItems>>

\* The tables behind the routers of categories and knowledge items.
tables == <<categories, knowledgeItems>>

(***************************************************************************)
(* AuthUtils (src/utils/auth.ts).                                          *)
(***************************************************************************)
NoHash == [plain |-> <<>>, salt |-> ""]

hashPassword(password, salt) == [plain |-> password, salt |-> salt]

comparePassword(password, hashedPassword) ==
    /\ hashedPassword # NoHash
    /\ hashedPassword.plain = password

JwtSecret == "JWT_SECRET"

NoJwt == [userId |-> 0, type |-> "", iat |-> 0, exp |-> 0, key |-> ""]

generateAccessToken(userId, t) ==
    [userId |-> userId, type |-> "access", iat |-> t,
     exp |-> t + JwtAccessExpires, key |-> JwtSecret]

generateRefreshToken(userId, t) ==
    [userId |-> userId, type |-> "refresh", iat |-> t,
     exp |-> t + JwtRefreshExpires, key |-> JwtSecret]

\* A verification of the signature alone, with exp ignored.
jwtVerify_IgnoreExp(token, t) ==
    token.key = JwtSecret

\* jwt.verify: the signature was made with the secret and the clock has not
\* reached exp.
jwtVerify(token, t) ==
    /\ token.key = JwtSecret
    /\ t < token.exp

\* verifyAccessToken without the check of the decoded type.
verifyAccessToken_NoKind(token, t) ==
    jwtVerify(token, t)

verifyAccessToken(token, t) ==
    /\ jwtVerify(token, t)
    /\ token.type = "access"

verifyRefreshToken(token, t) ==
    /\ jwtVerify(token, t)
    /\ token.type = "refresh"

HasChar(password, chars) == \E i \in 1..Len(password) : password[i] \in chars

\* The checker with the digit rule ahead of the uppercase rule.
isPasswordStrong_DigitFirst(password) ==
    IF Len(password) < MinPasswordLen
      THEN [valid |-> FALSE, message |-> "Password must be at least 8 characters long"]
    ELSE IF ~HasChar(password, LowerChars)
      THEN [valid |-> FALSE, message |-> "Password must contain at least one lowercase letter"]
    ELSE IF ~HasChar(password, DigitChars)
      THEN [valid |-> FALSE, message |-> "Password must contain at least one number"]
    ELSE IF ~HasChar(password, UpperChars)
      THEN [valid |-> FALSE, message |-> "Password must contain at least one uppercase letter"]
    ELSE IF ~HasChar(password, SpecialChars)
      THEN [valid |-> FALSE, message |-> "Password must contain at least one special character"]
    ELSE [valid |-> TRUE, message |-> ""]

isPasswordStrong(password) ==
    IF Len(password) < MinPasswordLen
      THEN [valid |-> FALSE, message |-> "Password must be at least 8 characters long"]
    ELSE IF ~HasChar(password, LowerChars)
      THEN [valid |-> FALSE, message |-> "Password must contain at least one lowercase letter"]
    ELSE IF ~HasChar(password, UpperChars)
      THEN [valid |-> FALSE, message |-> "Password must contain at least one uppercase letter"]
    ELSE IF ~HasChar(password, DigitChars)
      THEN [valid |-> FALSE, message |-> "Password must contain at least one number"]
    ELSE IF ~HasChar(password, SpecialChars)
      THEN [valid |-> FALSE, message |-> "Password must contain at least one special character"]
    ELSE [valid |-> TRUE, message |-> ""]

(***************************************************************************)
(* zod schemas of the controller.                                          *)
(***************************************************************************)
IsEmail(email) == email.local # "" /\ email.domain # ""

signupSchema(email, password, name) ==
    IF ~IsEmail(email) THEN "Invalid email address"
    ELSE IF Len(password) < SchemaMinPasswordLen THEN "Password must be at least 8 characters"
    ELSE IF name = "" THEN "Name is required"
    ELSE ""

loginSchema(email, password) ==
    IF ~IsEmail(email) THEN "Invalid email address"
    ELSE IF Len(password) < 1 THEN "Password is required"
    ELSE ""

forgotPasswordSchema(email) ==
    IF ~IsEmail(email) THEN "Invalid email address" ELSE ""

resetPasswordSchema(token, password) ==
    IF token = 0 THEN "Token is required"
    ELSE IF Len(password) < SchemaMinPasswordLen THEN "Password must be at least 8 characters"
    ELSE ""

(***************************************************************************)
(* Identity store queries (Prisma calls of the handlers).                  *)
(***************************************************************************)
UserIds == 1..Len(users)

\* prisma.user.findUnique({ where: { email } }): 0 when there is none.
findUserByEmail(email) ==
    IF \E id \in UserIds : users[id].email = email
      THEN CHOOSE id \in UserIds : users[id].email = email
      ELSE 0

\* A findFirst by verificationToken alone, without the expiry filter.
findUserByVerificationToken_NoExpiry(token) ==
    LET hits == {id \in UserIds : /\ users[id].verificationToken = token
                                  /\ users[id].verificationToken # 0}
    IN IF hits = {} THEN 0 ELSE CHOOSE id \in hits : TRUE

\* prisma.user.findFirst({ verificationToken, verificationExpires > now })
findUserByVerificationToken(token) ==
    LET hits == {id \in UserIds : /\ users[id].verificationToken = token
                                  /\ users[id].verificationToken # 0
                                  /\ users[id].verificationExpires > now}
    IN IF hits = {} THEN 0 ELSE CHOOSE id \in hits : TRUE

\* prisma.user.findFirst({ resetPasswordToken, resetPasswordExpires > now })
findUserByResetToken(token) ==
    LET hits == {id \in UserIds : /\ users[id].resetPasswordToken = token
                                  /\ users[id].resetPasswordToken # 0
                                  /\ users[id].resetPasswordExpires > now}
    IN IF hits = {} THEN 0 ELSE CHOOSE id \in hits : TRUE

\* A findFirst that is satisfied without a stored row.
findRefreshToken_AnyRow(token, userId) ==
    TRUE

\* prisma.refreshToken.findFirst({ token, userId, expiresAt > now })
findRefreshToken(token, userId) ==
    \E row \in BagToSet(refreshTokens) :
        /\ row.token = token
        /\ row.userId = userId
        /\ row.expiresAt > now

\* prisma.refreshToken.deleteMany({ where }) keeps the rows outside `gone`.
deleteRows(gone) ==
    [row \in (BagToSet(refreshTokens) \ gone) |-> refreshTokens[row]]

\* An insert that leaves the owner of the row out.
createRefreshRow_Unowned(token, userId) ==
    refreshTokens (+) SetToBag({[token |-> token, userId |-> 0,
                                 expiresAt |-> now + RefreshRowTTL]})

\* An insert that gives the row the lifetime of the access token.
createRefreshRow_AccessTTL(token, userId) ==
    refreshTokens (+) SetToBag({[token |-> token, userId |-> userId,
                                 expiresAt |-> now + JwtAccessExpires]})

\* prisma.refreshToken.create: a plain insert; a row with the same token
\* string is stored beside the one that is already there.
createRefreshRow(token, userId) ==
    refreshTokens (+) SetToBag({[token |-> token, userId |-> userId,
                                 expiresAt |-> now + RefreshRowTTL]})

NewUser(email, name, password, verified, vtoken, vexpires, googleId) ==
    [email |-> email, name |-> name, password |-> password,
     isVerified |-> verified,
     verificationToken |-> vtoken, verificationExpires |-> vexpires,
     resetPasswordToken |-> 0, resetPasswordExpires |-> -1,
     googleId |-> googleId]

(***************************************************************************)
(* Defaults of columns that the handlers leave to the schema.              *)
(***************************************************************************)
IsVerifiedDefault == FALSE

(***************************************************************************)
(* The request/response record kept in `last`: the inputs of the latest    *)
(* request, the status, body and code of its response, the tokens it       *)
(* minted, the user it returned or attached, and whether the middleware    *)
(* called next(); for a protected handler, the value it read as the id of  *)
(* the caller, the :id parameter and the query string of the request, and  *)
(* the ids of the rows in its response.                                    *)
(***************************************************************************)
NoEmail == [local |-> "", domain |-> ""]
NoGoogle == [kind |-> "", email |-> NoEmail, sub |-> ""]
NoHeader == [scheme |-> "", token |-> NoJwt]

\* A request slot of the specifications with overlapping requests: free,
\* between two of its store calls (found, updated), or answered (done).  hash
\* is the password column of the user row that a login read.
NoCall ==
    [op |-> "none", stage |-> "free", opaque |-> 0, password |-> PwEmpty,
     user |-> 0, status |-> 0, hash |-> NoHash]

NoRequest ==
    [op |-> "none", status |-> 0, body |-> "", code |-> "",
     email |-> NoEmail, password |-> PwEmpty, name |-> "", jwt |-> NoJwt,
     opaque |-> 0, header |-> NoHeader, google |-> NoGoogle,
     mail |-> "none", storeOk |-> TRUE,
     minted |-> {}, user |-> 0, nextCalled |-> FALSE, callerId |-> 0,
     target |-> 0,
     query |-> [categoryId |-> 0, subCategoryId |-> 0, type |-> "", search |-> "",
                tags |-> "", isPublic |-> ""],
     result |-> {}]

Reply(req, status, body) == [req EXCEPT !.status = status, !.body = body]

InternalError(req) == Reply(req, 500, "Internal server error")

\* The outcome of a send that the handler attempted.
Mail(emailOk) == IF emailOk THEN "sent" ELSE "failed"

Init ==
    /\ users = <<>>
    /\ refreshTokens = EmptyBag
    /\ now = 0
    /\ ticks = 0
    /\ issued = {}
    /\ nextOpaque = 1
    /\ last = NoRequest
    /\ preReset = {}
    /\ calls = [c \in 1..MaxCalls |-> NoCall]
    /\ categories = {}
    /\ knowledgeItems = {}

\* The instants at which something stored or issued expires.
Deadlines ==
    {token.exp : token \in issued}
    \cup {row.expiresAt : row \in BagToSet(refreshTokens)}
    \cup {users[id].verificationExpires : id \in UserIds}
    \cup {users[id].resetPasswordExpires : id \in UserIds}

\* The clock advances to the next instant at which a comparison with the
\* clock can change its outcome.
Tick(d) ==
    /\ ticks < MaxTicks
    /\ d > now
    /\ now' = d
    /\ ticks' = ticks + 1
    /\ UNCHANGED <<users, refreshTokens, issued, nextOpaque, last, preReset>>

(***************************************************************************)
(* AuthController (src/controllers/authController.ts).                     *)
(***************************************************************************)
\* signup without the call of isPasswordStrong.
signupCheck_SkipPolicy(email, password, name) ==
    IF signupSchema(email, password, name) # "" THEN "shape"
    ELSE IF findUserByEmail(email) # 0 THEN "conflict"
    ELSE "create"

\* signup without the lookup of the email.
signupCheck_SkipConflict(email, password, name) ==
    IF signupSchema(email, password, name) # "" THEN "shape"
    ELSE IF ~isPasswordStrong(password).valid THEN "policy"
    ELSE "create"

\* signup with the lookup of the email ahead of the password policy.
signupCheck_ConflictFirst(email, password, name) ==
    IF signupSchema(email, password, name) # "" THEN "shape"
    ELSE IF findUserByEmail(email) # 0 THEN "conflict"
    ELSE IF ~isPasswordStrong(password).valid THEN "policy"
    ELSE "create"

\* The branch signup takes: the checks in the order of the code.
signupCheck(email, password, name) ==
    IF signupSchema(email, password, name) # "" THEN "shape"
    ELSE IF ~isPasswordStrong(password).valid THEN "policy"
    ELSE IF findUserByEmail(email) # 0 THEN "conflict"
    ELSE "create"

signup(email, password, name, salt, emailOk) ==
    LET req == [NoRequest EXCEPT !.op = "signup", !.email = email,
                                 !.password = password, !.name = name]
        check == signupCheck(email, password, name)
    IN
    /\ UNCHANGED <<refreshTokens, now, ticks, issued, preReset>>
    /\ IF check = "shape" THEN
            /\ last' = Reply(req, 400, signupSchema(email, password, name))
            /\ UNCHANGED <<users, nextOpaque>>
       ELSE IF check = "policy" THEN
            /\ last' = Reply(req, 400, isPasswordStrong(password).message)
            /\ UNCHANGED <<users, nextOpaque>>
       ELSE IF check = "conflict" THEN
            /\ last' = Reply(req, 409, "User already exists with this email")
            /\ UNCHANGED <<users, nextOpaque>>
       ELSE IF findUserByEmail(email) # 0 THEN
            \* users_email_key rejects the insert
            /\ last' = InternalError(req)
            /\ UNCHANGED <<users, nextOpaque>>
       ELSE
            /\ Len(users) < MaxUsers
            /\ nextOpaque <= MaxOpaque
            /\ users' = Append(users,
                  NewUser(email, name, hashPassword(password, salt),
                          IsVerifiedDefault, nextOpaque, now + VerificationTTL, ""))
            /\ nextOpaque' = nextOpaque + 1
            \* a failed sendVerificationEmail is caught and logged
            /\ last' = [Reply(req, 201, "Account created successfully")
                           EXCEPT !.user = Len(users) + 1, !.mail = Mail(emailOk)]

\* login without the isVerified gate.
loginCheck_SkipVerified(email, password) ==
    LET user == findUserByEmail(email)
    IN IF loginSchema(email, password) # "" THEN "shape"
       ELSE IF user = 0 \/ users[user].password = NoHash THEN "credentials"
       ELSE IF ~comparePassword(password, users[user].password) THEN "credentials"
       ELSE "ok"

\* login without the comparison of the password.
loginCheck_SkipCompare(email, password) ==
    LET user == findUserByEmail(email)
    IN IF loginSchema(email, password) # "" THEN "shape"
       ELSE IF user = 0 \/ users[user].password = NoHash THEN "credentials"
       ELSE IF ~users[user].isVerified THEN "unverified"
       ELSE "ok"

\* login that lets an account without a password hash through the credential
\* check.
loginCheck_NullHashPasses(email, password) ==
    LET user == findUserByEmail(email)
    IN IF loginSchema(email, password) # "" THEN "shape"
       ELSE IF user = 0 THEN "credentials"
       ELSE IF /\ users[user].password # NoHash
               /\ ~comparePassword(password, users[user].password) THEN "credentials"
       ELSE IF ~users[user].isVerified THEN "unverified"
       ELSE "ok"

\* login with the isVerified gate ahead of the comparison of the password.
loginCheck_VerifiedFirst(email, password) ==
    LET user == findUserByEmail(email)
    IN IF loginSchema(email, password) # "" THEN "shape"
       ELSE IF user = 0 \/ users[user].password = NoHash THEN "credentials"
       ELSE IF ~users[user].isVerified THEN "unverified"
       ELSE IF ~comparePassword(password, users[user].password) THEN "credentials"
       ELSE "ok"

\* The branch login takes.
loginCheck(email, password) ==
    LET user == findUserByEmail(email)
    IN IF loginSchema(email, password) # "" THEN "shape"
       ELSE IF user = 0 \/ users[user].password = NoHash THEN "credentials"
       ELSE IF ~comparePassword(password, users[user].password) THEN "credentials"
       ELSE IF ~users[user].isVerified THEN "unverified"
       ELSE "ok"

login(email, password) ==
    LET req == [NoRequest EXCEPT !.op = "login", !.email = email,
                                 !.password = password]
        check == loginCheck(email, password)
        user == findUserByEmail(email)
        accessToken == generateAccessToken(user, now)
        refreshTok == generateRefreshToken(user, now)
    IN
    /\ UNCHANGED <<users, now, ticks, nextOpaque, preReset>>
    /\ IF check = "shape" THEN
            /\ last' = Reply(req, 400, loginSchema(email, password))
            /\ UNCHANGED <<refreshTokens, issued>>
       ELSE IF check = "credentials" THEN
            /\ last' = Reply(req, 401, "Invalid email or password")
            /\ UNCHANGED <<refreshTokens, issued>>
       ELSE IF check = "unverified" THEN
            /\ last' = [Reply(req, 401, "Please verify your email address before logging in")
                           EXCEPT !.code = "EMAIL_NOT_VERIFIED"]
            /\ UNCHANGED <<refreshTokens, issued>>
       ELSE
            /\ refreshTokens' = createRefreshRow(refreshTok, user)
            /\ issued' = issued \cup {accessToken, refreshTok}
            /\ last' = [Reply(req, 200, "Login successful")
                           EXCEPT !.user = user,
                                  !.minted = {accessToken, refreshTok}]

verifyEmail(token) ==
    LET req == [NoRequest EXCEPT !.op = "verifyEmail", !.opaque = token]
        user == findUserByVerificationToken(token)
    IN
    /\ UNCHANGED <<refreshTokens, now, ticks, issued, nextOpaque, preReset>>
    /\ IF user = 0 THEN
            /\ last' = Reply(req, 400, "Invalid or expired verification token")
            /\ UNCHANGED users
       ELSE
            /\ users' = [users EXCEPT ![user].isVerified = TRUE,
                                      ![user].verificationToken = 0,
                                      ![user].verificationExpires = -1]
            /\ last' = Reply(req, 200, "Email verified successfully")

\* A resend without the check of isVerified.
resendVerification_SkipVerified(email, emailOk) ==
    LET req == [NoRequest EXCEPT !.op = "resendVerification", !.email = email]
        user == findUserByEmail(email)
    IN
    /\ UNCHANGED <<refreshTokens, now, ticks, issued, preReset>>
    /\ IF email = NoEmail THEN
            /\ last' = InternalError(req)
            /\ UNCHANGED <<users, nextOpaque>>
       ELSE IF user = 0 THEN
            /\ last' = Reply(req, 404, "User not found")
            /\ UNCHANGED <<users, nextOpaque>>
       ELSE
            /\ nextOpaque <= MaxOpaque
            /\ users' = [users EXCEPT ![user].verificationToken = nextOpaque,
                                      ![user].verificationExpires = now + VerificationTTL]
            /\ nextOpaque' = nextOpaque + 1
            /\ last' = [(IF emailOk
                           THEN Reply(req, 200, "Verification email sent successfully")
                           ELSE InternalError(req))
                           EXCEPT !.user = user, !.mail = Mail(emailOk)]

\* A resend that mails a new token and extends the expiry but keeps the
\* stored token.
resendVerification_KeepOld(email, emailOk) ==
    LET req == [NoRequest EXCEPT !.op = "resendVerification", !.email = email]
        user == findUserByEmail(email)
    IN
    /\ UNCHANGED <<refreshTokens, now, ticks, issued, preReset>>
    /\ IF email = NoEmail THEN
            \* req.body has no email: findUnique rejects a where without a
            \* unique field, and the outer catch answers
            /\ last' = InternalError(req)
            /\ UNCHANGED <<users, nextOpaque>>
       ELSE IF user = 0 THEN
            /\ last' = Reply(req, 404, "User not found")
            /\ UNCHANGED <<users, nextOpaque>>
       ELSE IF users[user].isVerified THEN
            /\ last' = Reply(req, 400, "Email is already verified")
            /\ UNCHANGED <<users, nextOpaque>>
       ELSE
            /\ nextOpaque <= MaxOpaque
            /\ users' = [users EXCEPT ![user].verificationExpires = now + VerificationTTL]
            /\ nextOpaque' = nextOpaque + 1
            /\ last' = [(IF emailOk
                           THEN Reply(req, 200, "Verification email sent successfully")
                           ELSE InternalError(req))
                           EXCEPT !.user = user, !.mail = Mail(emailOk)]

resendVerification(email, emailOk) ==
    LET req == [NoRequest EXCEPT !.op = "resendVerification", !.email = email]
        user == findUserByEmail(email)
    IN
    /\ UNCHANGED <<refreshTokens, now, ticks, issued, preReset>>
    /\ IF email = NoEmail THEN
            \* req.body has no email: findUnique rejects a where without a
            \* unique field, and the outer catch answers
            /\ last' = InternalError(req)
            /\ UNCHANGED <<users, nextOpaque>>
       ELSE IF user = 0 THEN
            /\ last' = Reply(req, 404, "User not found")
            /\ UNCHANGED <<users, nextOpaque>>
       ELSE IF users[user].isVerified THEN
            /\ last' = Reply(req, 400, "Email is already verified")
            /\ UNCHANGED <<users, nextOpaque>>
       ELSE
            /\ nextOpaque <= MaxOpaque
            /\ users' = [users EXCEPT ![user].verificationToken = nextOpaque,
                                      ![user].verificationExpires = now + VerificationTTL]
            /\ nextOpaque' = nextOpaque + 1
            \* sendVerificationEmail is awaited outside any inner try
            /\ last' = [(IF emailOk
                           THEN Reply(req, 200, "Verification email sent successfully")
                           ELSE InternalError(req))
                           EXCEPT !.user = user, !.mail = Mail(emailOk)]

GenericForgotMessage ==
    "If an account with that email exists, we have sent a password reset link."

forgotPassword(email, emailOk) ==
    LET req == [NoRequest EXCEPT !.op = "forgotPassword", !.email = email]
        shape == forgotPasswordSchema(email)
        user == findUserByEmail(email)
    IN
    /\ UNCHANGED <<refreshTokens, now, ticks, issued, preReset>>
    /\ IF shape # "" THEN
            /\ last' = Reply(req, 400, shape)
            /\ UNCHANGED <<users, nextOpaque>>
       ELSE IF user = 0 THEN
            /\ last' = Reply(req, 200, GenericForgotMessage)
            /\ UNCHANGED <<users, nextOpaque>>
       ELSE
            /\ nextOpaque <= MaxOpaque
            /\ users' = [users EXCEPT ![user].resetPasswordToken = nextOpaque,
                                      ![user].resetPasswordExpires = now + ResetTTL]
            /\ nextOpaque' = nextOpaque + 1
            \* sendPasswordResetEmail is awaited outside any inner try
            /\ last' = [(IF emailOk
                           THEN Reply(req, 200, GenericForgotMessage)
                           ELSE InternalError(req))
                           EXCEPT !.mail = Mail(emailOk)]

\* A deleteMany whose filter matches the rows of every user.
deleteAllRefreshTokens_Everyone(userId) ==
    deleteRows(BagToSet(refreshTokens))

\* A deleteMany by token whose filter matches every row.
deleteRefreshToken_Everything(token) ==
    deleteRows(BagToSet(refreshTokens))

\* prisma.refreshToken.deleteMany({ where: { userId } })
deleteAllRefreshTokens(userId) ==
    deleteRows({row \in BagToSet(refreshTokens) : row.userId = userId})

\* prisma.refreshToken.deleteMany({ where: { token } })
deleteRefreshToken(token) ==
    deleteRows({row \in BagToSet(refreshTokens) : row.token = token})

\* The refresh tokens issued to a user so far.
IssuedRefresh(userId) ==
    {token \in issued : token.userId = userId /\ token.type = "refresh"}

\* A reset that clears the reset token and leaves the stored hash as it was.
resetPassword_KeepHash(token, password, salt, emailOk) ==
    LET req == [NoRequest EXCEPT !.op = "resetPassword", !.opaque = token,
                                 !.password = password]
        shape == resetPasswordSchema(token, password)
        passwordCheck == isPasswordStrong(password)
        user == findUserByResetToken(token)
    IN
    /\ UNCHANGED <<now, ticks, issued, nextOpaque>>
    /\ IF shape # "" THEN
            /\ last' = Reply(req, 400, shape)
            /\ UNCHANGED <<users, refreshTokens, preReset>>
       ELSE IF ~passwordCheck.valid THEN
            /\ last' = Reply(req, 400, passwordCheck.message)
            /\ UNCHANGED <<users, refreshTokens, preReset>>
       ELSE IF user = 0 THEN
            /\ last' = Reply(req, 400, "Invalid or expired reset token")
            /\ UNCHANGED <<users, refreshTokens, preReset>>
       ELSE
            /\ users' = [users EXCEPT ![user].resetPasswordToken = 0,
                                      ![user].resetPasswordExpires = -1]
            /\ refreshTokens' = deleteAllRefreshTokens(user)
            /\ preReset' = preReset \cup IssuedRefresh(user)
            /\ last' = [Reply(req, 200, "Password reset successfully")
                           EXCEPT !.user = user, !.mail = Mail(emailOk)]

\* A reset that also marks the address of the user as verified.
resetPassword_Verifies(token, password, salt, emailOk) ==
    LET req == [NoRequest EXCEPT !.op = "resetPassword", !.opaque = token,
                                 !.password = password]
        shape == resetPasswordSchema(token, password)
        passwordCheck == isPasswordStrong(password)
        user == findUserByResetToken(token)
    IN
    /\ UNCHANGED <<now, ticks, issued, nextOpaque>>
    /\ IF shape # "" THEN
            /\ last' = Reply(req, 400, shape)
            /\ UNCHANGED <<users, refreshTokens, preReset>>
       ELSE IF ~passwordCheck.valid THEN
            /\ last' = Reply(req, 400, passwordCheck.message)
            /\ UNCHANGED <<users, refreshTokens, preReset>>
       ELSE IF user = 0 THEN
            /\ last' = Reply(req, 400, "Invalid or expired reset token")
            /\ UNCHANGED <<users, refreshTokens, preReset>>
       ELSE
            /\ users' = [users EXCEPT ![user].password = hashPassword(password, salt),
                                      ![user].resetPasswordToken = 0,
                                      ![user].resetPasswordExpires = -1,
                                      ![user].isVerified = TRUE]
            /\ refreshTokens' = deleteAllRefreshTokens(user)
            /\ preReset' = preReset \cup IssuedRefresh(user)
            /\ last' = [Reply(req, 200, "Password reset successfully")
                           EXCEPT !.user = user, !.mail = Mail(emailOk)]

resetPassword(token, password, salt, emailOk) ==
    LET req == [NoRequest EXCEPT !.op = "resetPassword", !.opaque = token,
                                 !.password = password]
        shape == resetPasswordSchema(token, password)
        passwordCheck == isPasswordStrong(password)
        user == findUserByResetToken(token)
    IN
    /\ UNCHANGED <<now, ticks, issued, nextOpaque>>
    /\ IF shape # "" THEN
            /\ last' = Reply(req, 400, shape)
            /\ UNCHANGED <<users, refreshTokens, preReset>>
       ELSE IF ~passwordCheck.valid THEN
            /\ last' = Reply(req, 400, passwordCheck.message)
            /\ UNCHANGED <<users, refreshTokens, preReset>>
       ELSE IF user = 0 THEN
            /\ last' = Reply(req, 400, "Invalid or expired reset token")
            /\ UNCHANGED <<users, refreshTokens, preReset>>
       ELSE
            /\ users' = [users EXCEPT ![user].password = hashPassword(password, salt),
                                      ![user].resetPasswordToken = 0,
                                      ![user].resetPasswordExpires = -1]
            /\ refreshTokens' = deleteAllRefreshTokens(user)
            /\ preReset' = preReset \cup IssuedRefresh(user)
            \* a failed sendPasswordChangeNotification is caught and logged
            /\ last' = [Reply(req, 200, "Password reset successfully")
                           EXCEPT !.user = user, !.mail = Mail(emailOk)]

\* A refresh endpoint that tells the caller that the token has no row.
refreshToken_RevokedOracle(jwt, storeOk) ==
    LET req == [NoRequest EXCEPT !.op = "refreshToken", !.jwt = jwt,
                                 !.storeOk = storeOk]
        newAccessToken == generateAccessToken(jwt.userId, now)
    IN
    /\ UNCHANGED <<users, refreshTokens, now, ticks, nextOpaque, preReset>>
    /\ IF jwt = NoJwt THEN
            /\ last' = Reply(req, 401, "Refresh token is required")
            /\ UNCHANGED issued
       ELSE IF ~verifyRefreshToken(jwt, now) \/ ~storeOk THEN
            /\ last' = Reply(req, 401, "Invalid or expired refresh token")
            /\ UNCHANGED issued
       ELSE IF ~findRefreshToken(jwt, jwt.userId) THEN
            /\ last' = Reply(req, 401, "Refresh token has been revoked")
            /\ UNCHANGED issued
       ELSE
            /\ issued' = issued \cup {newAccessToken}
            /\ last' = [Reply(req, 200, "")
                           EXCEPT !.user = jwt.userId,
                                  !.minted = {newAccessToken}]

\* A refresh endpoint that rotates: it consumes the row it was shown.
refreshToken_Rotate(jwt, storeOk) ==
    LET req == [NoRequest EXCEPT !.op = "refreshToken", !.jwt = jwt,
                                 !.storeOk = storeOk]
        newAccessToken == generateAccessToken(jwt.userId, now)
        accepted == /\ jwt # NoJwt
                    /\ verifyRefreshToken(jwt, now)
                    /\ storeOk
                    /\ findRefreshToken(jwt, jwt.userId)
    IN
    /\ UNCHANGED <<users, now, ticks, nextOpaque, preReset>>
    /\ IF accepted THEN
            /\ issued' = issued \cup {newAccessToken}
            /\ refreshTokens' = deleteRefreshToken(jwt)
            /\ last' = [Reply(req, 200, "")
                           EXCEPT !.user = jwt.userId,
                                  !.minted = {newAccessToken}]
       ELSE
            /\ UNCHANGED <<issued, refreshTokens>>
            /\ last' = Reply(req, 401, "Invalid or expired refresh token")

refreshToken(jwt, storeOk) ==
    LET req == [NoRequest EXCEPT !.op = "refreshToken", !.jwt = jwt,
                                 !.storeOk = storeOk]
        newAccessToken == generateAccessToken(jwt.userId, now)
    IN
    /\ UNCHANGED <<users, refreshTokens, now, ticks, nextOpaque, preReset>>
    /\ IF jwt = NoJwt THEN
            /\ last' = Reply(req, 401, "Refresh token is required")
            /\ UNCHANGED issued
       ELSE IF ~verifyRefreshToken(jwt, now) THEN
            /\ last' = Reply(req, 401, "Invalid or expired refresh token")
            /\ UNCHANGED issued
       ELSE IF ~storeOk THEN
            \* a rejected store call lands in the same catch block
            /\ last' = Reply(req, 401, "Invalid or expired refresh token")
            /\ UNCHANGED issued
       ELSE IF ~findRefreshToken(jwt, jwt.userId) THEN
            /\ last' = Reply(req, 401, "Invalid or expired refresh token")
            /\ UNCHANGED issued
       ELSE
            /\ issued' = issued \cup {newAccessToken}
            /\ last' = [Reply(req, 200, "")
                           EXCEPT !.user = jwt.userId,
                                  !.minted = {newAccessToken}]

logout(jwt) ==
    LET req == [NoRequest EXCEPT !.op = "logout", !.jwt = jwt]
    IN
    /\ UNCHANGED <<users, now, ticks, issued, nextOpaque, preReset>>
    /\ refreshTokens' =
          IF jwt = NoJwt THEN refreshTokens ELSE deleteRefreshToken(jwt)
    /\ last' = Reply(req, 200, "Logged out successfully")

(***************************************************************************)
(* Request Authenticator (src/middleware/auth.ts).                         *)
(***************************************************************************)
\* A lookup by id alone, without isVerified: true.
findVerifiedUser_AnyUser(id) ==
    IF id \in UserIds THEN id ELSE 0

\* prisma.user.findUnique({ where: { id, isVerified: true } })
findVerifiedUser(id) ==
    IF id \in UserIds /\ users[id].isVerified THEN id ELSE 0

\* What authMiddleware does with one request: the response it sends (status
\* 0 when it sends none), whether it calls next(), and the req.userId it sets.
authResolve(header, storeOk) ==
    IF header.scheme # "Bearer" THEN
        [status |-> 401, body |-> "Access token required", next |-> FALSE, user |-> 0]
    ELSE IF ~verifyAccessToken(header.token, now) THEN
        [status |-> 401, body |-> "Invalid or expired token", next |-> FALSE, user |-> 0]
    ELSE IF ~storeOk THEN
        [status |-> 401, body |-> "Invalid or expired token", next |-> FALSE, user |-> 0]
    ELSE IF findVerifiedUser(header.token.userId) = 0 THEN
        [status |-> 401, body |-> "Invalid token or user not found", next |-> FALSE, user |-> 0]
    ELSE
        [status |-> 0, body |-> "", next |-> TRUE,
         user |-> findVerifiedUser(header.token.userId)]

\* A protected route whose handler is left abstract.
authMiddleware(header, storeOk) ==
    LET req == [NoRequest EXCEPT !.op = "authMiddleware", !.header = header,
                                 !.storeOk = storeOk]
        auth == authResolve(header, storeOk)
    IN
    /\ UNCHANGED <<users, refreshTokens, now, ticks, issued, nextOpaque, preReset>>
    /\ last' = [Reply(req, auth.status, auth.body)
                   EXCEPT !.nextCalled = auth.next, !.user = auth.user]

\* An optional authenticator that turns a request with a bad credential
\* away as authMiddleware does.
optionalAuthMiddleware_FailClosed(header, storeOk) ==
    LET req == [NoRequest EXCEPT !.op = "optionalAuthMiddleware", !.header = header,
                                 !.storeOk = storeOk]
        auth == authResolve(header, storeOk)
    IN
    /\ UNCHANGED <<users, refreshTokens, now, ticks, issued, nextOpaque, preReset>>
    /\ last' = IF header.scheme = "Bearer"
                THEN [Reply(req, auth.status, auth.body)
                         EXCEPT !.nextCalled = auth.next, !.user = auth.user]
                ELSE [req EXCEPT !.nextCalled = TRUE]

\* A route behind optionalAuthMiddleware whose handler is left abstract.
optionalAuthMiddleware(header, storeOk) ==
    LET req == [NoRequest EXCEPT !.op = "optionalAuthMiddleware", !.header = header,
                                 !.storeOk = storeOk]
        user == IF /\ header.scheme = "Bearer"
                   /\ verifyAccessToken(header.token, now)
                   /\ storeOk
                  THEN findVerifiedUser(header.token.userId)
                  ELSE 0
    IN
    /\ UNCHANGED <<users, refreshTokens, now, ticks, issued, nextOpaque, preReset>>
    /\ last' = [req EXCEPT !.nextCalled = TRUE, !.user = user]

\* The value of a property that an object does not have.
undefined == 0

\* obj.field
prop(obj, field) == IF field \in DOMAIN obj THEN obj[field] ELSE undefined

\* What authMiddleware adds to the request object once it has resolved the
\* user: req.userId, and req.user with the columns of its select.
attachUser(id) ==
    [userId |-> id,
     user |-> [id |-> id, email |-> users[id].email, name |-> users[id].name,
               isVerified |-> users[id].isVerified]]

\* router.post("/logout-all", authMiddleware, AuthController.logoutAll)
logoutAll(header, storeOk) ==
    LET req == [NoRequest EXCEPT !.op = "logoutAll", !.header = header,
                                 !.storeOk = storeOk]
        auth == authResolve(header, storeOk)
    IN
    /\ UNCHANGED <<users, now, ticks, issued, nextOpaque, preReset>>
    /\ IF ~auth.next THEN
            /\ last' = Reply(req, auth.status, auth.body)
            /\ UNCHANGED refreshTokens
       ELSE
            LET userId == prop(attachUser(auth.user), "userId")
            IN /\ refreshTokens' = deleteAllRefreshTokens(userId)
               /\ last' = [Reply(req, 200, "Logged out from all devices successfully")
                              EXCEPT !.nextCalled = TRUE, !.user = auth.user,
                                     !.callerId = userId]

\* Handlers behind authMiddleware in the routers of categories, knowledge
\* items and users, named by method and path.
ProtectedRoutes ==
    {"GET /categories", "POST /categories", "GET /knowledge", "GET /users/profile"}

\* The expression with which the handler of a route reads the id of the
\* caller from the request object.
handlerUserId(route, request) ==
    IF route = "POST /categories"
    THEN prop(request.user, "id")
    ELSE prop(request.user, "userId")

\* A protected route up to the point where its handler has read the id of
\* the caller; what the handler does with it is left abstract.
protectedRoute(route, header, storeOk) ==
    LET req == [NoRequest EXCEPT !.op = route, !.header = header,
                                 !.storeOk = storeOk]
        auth == authResolve(header, storeOk)
    IN
    /\ UNCHANGED <<users, refreshTokens, now, ticks, issued, nextOpaque, preReset>>
    /\ last' = IF ~auth.next
                THEN Reply(req, auth.status, auth.body)
                ELSE [req EXCEPT !.nextCalled = TRUE, !.user = auth.user,
                                 !.callerId = handlerUserId(route, attachUser(auth.user))]

\* The row of a deleted user.
DeletedUser == NewUser(NoEmail, "", NoHash, FALSE, 0, -1, "")

\* router.delete("/account", authMiddleware, ...) of the users router.
deleteAccount(header, storeOk, confirmed) ==
    LET req == [NoRequest EXCEPT !.op = "deleteAccount", !.header = header,
                                 !.storeOk = storeOk]
        auth == authResolve(header, storeOk)
    IN
    /\ UNCHANGED <<now, ticks, issued, nextOpaque, preReset>>
    /\ IF ~auth.next THEN
            /\ last' = Reply(req, auth.status, auth.body)
            /\ UNCHANGED <<users, refreshTokens>>
       ELSE
            LET userId == prop(attachUser(auth.user).user, "userId")
                called == [req EXCEPT !.nextCalled = TRUE, !.user = auth.user,
                                      !.callerId = userId]
            IN IF ~confirmed THEN
                    /\ last' = Reply(called, 400,
                                     "Please provide confirmation string \"DELETE_MY_ACCOUNT\"")
                    /\ UNCHANGED <<users, refreshTokens>>
               ELSE IF userId = undefined THEN
                    \* prisma.user.delete rejects a where without a unique field
                    /\ last' = Reply(called, 500, "Failed to delete account")
                    /\ UNCHANGED <<users, refreshTokens>>
               ELSE
                    \* the rows of the user go with the user (cascade)
                    /\ users' = [users EXCEPT ![userId] = DeletedUser]
                    /\ refreshTokens' = deleteAllRefreshTokens(userId)
                    /\ last' = Reply(called, 200, "Account deleted successfully")

(***************************************************************************)
(* OAuth federation.                                                       *)
(***************************************************************************)
\* The profile the provider yields for a token: the payload of a verified ID
\* token carries sub; the v2 userinfo document of the fallback carries id and
\* no sub.
googleUser(google) ==
    IF google.kind = "id" THEN [email |-> google.email, sub |-> google.sub]
    ELSE [email |-> google.email, sub |-> ""]

\* Only verifyIdToken is tried; there is no userinfo fallback.
googleTokenAccepted_NoFallback(google) ==
    google.kind = "id"

\* verifyIdToken accepts the token, or it throws and userinfo.get accepts it.
googleTokenAccepted(google) ==
    google.kind \in {"id", "access"}

googleIdTaken(sub) == \E id \in UserIds : users[id].googleId = sub

googleAuth(google) ==
    LET req == [NoRequest EXCEPT !.op = "googleAuth", !.google = google]
        profile == googleUser(google)
        found == findUserByEmail(profile.email)
        creating == found = 0
        user == IF creating THEN Len(users) + 1 ELSE found
        linking == ~creating /\ users[found].googleId = "" /\ profile.sub # ""
        accessToken == generateAccessToken(user, now)
        refreshTok == generateRefreshToken(user, now)
    IN
    /\ UNCHANGED <<now, ticks, nextOpaque, preReset>>
    /\ IF google.kind = "missing" THEN
            /\ last' = Reply(req, 400, "Google token is required")
            /\ UNCHANGED <<users, refreshTokens, issued>>
       ELSE IF ~googleTokenAccepted(google) THEN
            /\ last' = Reply(req, 401, "Invalid Google token")
            /\ UNCHANGED <<users, refreshTokens, issued>>
       ELSE IF profile.email = NoEmail THEN
            /\ last' = Reply(req, 401, "Unable to get user info from Google token")
            /\ UNCHANGED <<users, refreshTokens, issued>>
       ELSE IF (creating \/ linking) /\ profile.sub # "" /\ googleIdTaken(profile.sub) THEN
            \* users_googleId_key rejects the write
            /\ last' = InternalError(req)
            /\ UNCHANGED <<users, refreshTokens, issued>>
       ELSE
            /\ creating => Len(users) < MaxUsers
            /\ users' =
                  IF creating THEN
                      Append(users, NewUser(profile.email, "User", NoHash,
                                            TRUE, 0, -1, profile.sub))
                  ELSE IF linking THEN
                      [users EXCEPT ![found].googleId = profile.sub,
                                    ![found].isVerified = TRUE]
                  ELSE users
            /\ refreshTokens' = createRefreshRow(refreshTok, user)
            /\ issued' = issued \cup {accessToken, refreshTok}
            /\ last' = [Reply(req, 200, "Google authentication successful")
                           EXCEPT !.user = user,
                                  !.minted = {accessToken, refreshTok}]

(***************************************************************************)
(* What clients can send.                                                  *)
(***************************************************************************)
Forge(token) == [token EXCEPT !.key = "attacker"]

ClientJwts == issued \cup {Forge(token) : token \in issued}

BodyJwts == ClientJwts \cup {NoJwt}

Headers ==
    {NoHeader, [scheme |-> "Basic", token |-> NoJwt]}
    \cup {[scheme |-> "Bearer", token |-> token] : token \in ClientJwts}

\* Opaque tokens that were sent by email, and one that never was.
OpaqueInputs == 1..(nextOpaque - 1) \cup {MaxOpaque + 1}

\* The two addresses are interchangeable: the first account is opened for
\* EmailA.
OpenEmails == IF users = <<>> THEN {EmailA} ELSE Emails

SignupInputs ==
    {[email |-> email, password |-> PwValid, name |-> "Ann", emailOk |-> emailOk] :
        email \in OpenEmails, emailOk \in BOOLEAN}
    \cup {[email |-> EmailA, password |-> PwLower, name |-> "Ann", emailOk |-> TRUE],
          [email |-> EmailA, password |-> PwShort, name |-> "Ann", emailOk |-> TRUE],
          [email |-> EmailBad, password |-> PwValid, name |-> "Ann", emailOk |-> TRUE],
          [email |-> EmailA, password |-> PwValid, name |-> "", emailOk |-> TRUE]}

LoginInputs ==
    {[email |-> email, password |-> password] :
        email \in Emails, password \in {PwValid, PwOther}}
    \cup {[email |-> EmailA, password |-> PwEmpty],
          [email |-> EmailBad, password |-> PwValid]}

ResetInputs ==
    {[token |-> token, password |-> PwOther, emailOk |-> emailOk] :
        token \in OpaqueInputs, emailOk \in BOOLEAN}
    \cup {[token |-> token, password |-> password, emailOk |-> TRUE] :
        token \in 1..(nextOpaque - 1), password \in {PwLower, PwShort}}
    \cup {[token |-> 0, password |-> PwOther, emailOk |-> TRUE]}

\* The store can fail only where it is called: after the token was verified.
StoreInputs(jwt) == IF jwtVerify(jwt, now) THEN BOOLEAN ELSE {TRUE}

\* The confirmation string is looked at only once the caller is resolved.
ConfirmInputs(header, storeOk) ==
    IF authResolve(header, storeOk).next THEN BOOLEAN ELSE {TRUE}

GoogleInputs ==
    {[kind |-> "missing", email |-> NoEmail, sub |-> ""],
     [kind |-> "invalid", email |-> NoEmail, sub |-> ""],
     [kind |-> "id", email |-> NoEmail, sub |-> "g1"]}
    \cup {in \in {[kind |-> "id", email |-> EmailA, sub |-> "g1"],
                   [kind |-> "id", email |-> EmailB, sub |-> "g2"],
                   [kind |-> "id", email |-> EmailB, sub |-> "g1"],
                   [kind |-> "access", email |-> EmailA, sub |-> ""],
                   [kind |-> "access", email |-> EmailB, sub |-> ""]} :
              in.email \in OpenEmails}

\* The response is delivered: the transcript slot is free for the next request.
Deliver ==
    /\ last # NoRequest
    /\ last' = NoRequest
    /\ UNCHANGED <<users, refreshTokens, now, ticks, issued, nextOpaque, preReset, calls,
                   tables>>

Idle == last = NoRequest

\* The tokens and rows after the step stay within the bounds.
WithinSessions ==
    /\ Cardinality(issued') <= MaxIssued
    /\ BagCardinality(refreshTokens') <= MaxRows

\* Requests are served one after the other.
Next ==
    \/ Deliver
    \/ Idle /\ UNCHANGED <<calls, tables>> /\ \E d \in Deadlines : Tick(d)
    \/ Idle /\ UNCHANGED <<calls, tables>> /\ \E in \in SignupInputs :
            signup(in.email, in.password, in.name, "s1", in.emailOk)
    \/ Idle /\ UNCHANGED <<calls, tables>> /\ \E in \in LoginInputs :
            login(in.email, in.password) /\ WithinSessions
    \/ Idle /\ UNCHANGED <<calls, tables>> /\ \E token \in OpaqueInputs : verifyEmail(token)
    \/ Idle /\ UNCHANGED <<calls, tables>> /\ \E email \in Emails \cup {NoEmail}, emailOk \in BOOLEAN :
            resendVerification(email, emailOk)
    \/ Idle /\ UNCHANGED <<calls, tables>> /\ \E email \in Emails \cup {EmailBad}, emailOk \in BOOLEAN :
            forgotPassword(email, emailOk)
    \/ Idle /\ UNCHANGED <<calls, tables>> /\ \E in \in ResetInputs :
            resetPassword(in.token, in.password, "s1", in.emailOk)
    \/ Idle /\ UNCHANGED <<calls, tables>> /\ \E jwt \in BodyJwts : \E storeOk \in StoreInputs(jwt) :
            refreshToken(jwt, storeOk) /\ WithinSessions
    \/ Idle /\ UNCHANGED <<calls, tables>> /\ \E jwt \in BodyJwts : logout(jwt)
    \/ Idle /\ UNCHANGED <<calls, tables>> /\ \E header \in Headers : \E storeOk \in StoreInputs(header.token) :
            authMiddleware(header, storeOk)
    \/ Idle /\ UNCHANGED <<calls, tables>> /\ \E header \in Headers : \E storeOk \in StoreInputs(header.token) :
            optionalAuthMiddleware(header, storeOk)
    \/ Idle /\ UNCHANGED <<calls, tables>> /\ \E header \in Headers : \E storeOk \in StoreInputs(header.token) :
            logoutAll(header, storeOk)
    \/ Idle /\ UNCHANGED <<calls, tables>> /\ \E google \in GoogleInputs :
            googleAuth(google) /\ WithinSessions
    \/ Idle /\ UNCHANGED <<calls, tables>> /\ \E header \in Headers : \E storeOk \in StoreInputs(header.token) :
            \E confirmed \in ConfirmInputs(header, storeOk) :
                deleteAccount(header, storeOk, confirmed)

Spec == Init /\ [][Next]_vars

(***************************************************************************)
(* Overlapping requests: verifyEmail and resetPassword as the sequence of  *)
(* their awaited store calls.  Another request can run between the         *)
(* findFirst and the update of one request.                                *)
(***************************************************************************)
FreeCalls == {c \in DOMAIN calls : calls[c].stage = "free"}

\* verifyEmail up to the answer of findFirst.
verifyEmailFind(c, token) ==
    /\ c \in FreeCalls
    /\ calls' = [calls EXCEPT ![c] =
                    [NoCall EXCEPT !.op = "verifyEmail", !.stage = "found",
                                   !.opaque = token,
                                   !.user = findUserByVerificationToken(token)]]
    /\ UNCHANGED <<users, refreshTokens, now, ticks, issued, nextOpaque, last,
                   preReset>>

\* verifyEmail from the answer of findFirst on: 400, or update by id and 200.
verifyEmailUpdate(c) ==
    /\ calls[c].op = "verifyEmail"
    /\ calls[c].stage = "found"
    /\ LET user == calls[c].user
       IN IF user = 0 THEN
               /\ calls' = [calls EXCEPT ![c].stage = "done", ![c].status = 400]
               /\ UNCHANGED users
          ELSE
               /\ users' = [users EXCEPT ![user].isVerified = TRUE,
                                         ![user].verificationToken = 0,
                                         ![user].verificationExpires = -1]
               /\ calls' = [calls EXCEPT ![c].stage = "done", ![c].status = 200]
    /\ UNCHANGED <<refreshTokens, now, ticks, issued, nextOpaque, last, preReset>>

\* resetPassword up to the answer of findFirst.
resetPasswordFind(c, token, password) ==
    LET req == [NoCall EXCEPT !.op = "resetPassword", !.opaque = token,
                              !.password = password]
    IN
    /\ c \in FreeCalls
    /\ calls' = [calls EXCEPT ![c] =
                    IF resetPasswordSchema(token, password) # ""
                       \/ ~isPasswordStrong(password).valid
                    THEN [req EXCEPT !.stage = "done", !.status = 400]
                    ELSE [req EXCEPT !.stage = "found",
                                     !.user = findUserByResetToken(token)]]
    /\ UNCHANGED <<users, refreshTokens, now, ticks, issued, nextOpaque, last,
                   preReset>>

\* resetPassword from the answer of findFirst on: 400, or hash, update by id,
\* deleteMany and 200.
resetPasswordUpdate(c, salt) ==
    /\ calls[c].op = "resetPassword"
    /\ calls[c].stage = "found"
    /\ LET user == calls[c].user
       IN IF user = 0 THEN
               /\ calls' = [calls EXCEPT ![c].stage = "done", ![c].status = 400]
               /\ UNCHANGED <<users, refreshTokens, preReset>>
          ELSE
               /\ users' = [users EXCEPT
                              ![user].password = hashPassword(calls[c].password, salt),
                              ![user].resetPasswordToken = 0,
                              ![user].resetPasswordExpires = -1]
               /\ refreshTokens' = deleteAllRefreshTokens(user)
               /\ preReset' = preReset \cup IssuedRefresh(user)
               /\ calls' = [calls EXCEPT ![c].stage = "done", ![c].status = 200]
    /\ UNCHANGED <<now, ticks, issued, nextOpaque, last>>

\* Passwords sent to the overlapping resetPassword requests.
RacePasswords == {PwValid, PwOther, PwLower}

\* Accounts are set up and tokens are mailed by whole requests; verifyEmail
\* and resetPassword overlap.
RaceNext ==
    \/ Deliver
    \/ Idle /\ UNCHANGED <<calls, tables>> /\ \E email \in Emails :
            signup(email, PwValid, "Ann", "s1", TRUE)
    \/ Idle /\ UNCHANGED <<calls, tables>> /\ \E email \in Emails : forgotPassword(email, TRUE)
    \/ UNCHANGED tables /\ \E c \in DOMAIN calls, token \in OpaqueInputs : verifyEmailFind(c, token)
    \/ UNCHANGED tables /\ \E c \in DOMAIN calls : verifyEmailUpdate(c)
    \/ UNCHANGED tables /\ \E c \in DOMAIN calls, token \in OpaqueInputs, password \in RacePasswords :
            resetPasswordFind(c, token, password)
    \/ UNCHANGED tables /\ \E c \in DOMAIN calls : resetPasswordUpdate(c, "s1")

SpecRace == Init /\ [][RaceNext]_vars

(***************************************************************************)
(* Sessions of several users side by side: federated sign-in, refresh,     *)
(* logout and logout-all, served one after the other within one second.    *)
(* The bounds apply to each user.                                          *)
(***************************************************************************)
RowsOf(rows, userId) ==
    LET owned == {row \in BagToSet(rows) : row.userId = userId}
    IN BagCardinality([row \in owned |-> rows[row]])

WithinUserSessions ==
    \A id \in 1..Len(users') :
        /\ Cardinality({token \in issued' : token.userId = id}) <= MaxIssued
        /\ RowsOf(refreshTokens', id) <= MaxRows

SessionNext ==
    \/ Deliver
    \/ Idle /\ UNCHANGED <<calls, tables>> /\ \E google \in GoogleInputs :
            googleAuth(google) /\ WithinUserSessions
    \/ Idle /\ UNCHANGED <<calls, tables>> /\ \E jwt \in BodyJwts : \E storeOk \in StoreInputs(jwt) :
            refreshToken(jwt, storeOk) /\ WithinUserSessions
    \/ Idle /\ UNCHANGED <<calls, tables>> /\ \E jwt \in BodyJwts : logout(jwt)
    \/ Idle /\ UNCHANGED <<calls, tables>> /\ \E header \in Headers :
            \E storeOk \in StoreInputs(header.token) : logoutAll(header, storeOk)

SpecSessions == Init /\ [][SessionNext]_vars

(***************************************************************************)
(* Properties.                                                             *)
(***************************************************************************)
IsAccessKind(token) == token = generateAccessToken(token.userId, token.iat)

IsRefreshKind(token) == token = generateRefreshToken(token.userId, token.iat)

\* Signed with the secret and not expired at the present clock.
Live(token) == token.key = JwtSecret /\ now < token.exp

\* C1: the two token kinds are never accepted for one another.  A token made
\* by generateAccessToken never passes verifyRefreshToken and a token made
\* by generateRefreshToken never passes verifyAccessToken; hence the refresh
\* endpoint answers an issued access token with 401 and mints nothing, the
\* Request Authenticator answers a bearer refresh token with 401 without
\* calling the handler, and the optional authenticator attaches no user.
C1_KindsNotInterchangeable ==
    /\ \A token \in issued :
          /\ IsAccessKind(token) => ~verifyRefreshToken(token, now)
          /\ IsRefreshKind(token) => ~verifyAccessToken(token, now)
    /\ (last.op = "refreshToken" /\ last.jwt \in issued /\ IsAccessKind(last.jwt))
          => (last.status = 401 /\ last.minted = {})
    /\ (/\ last.op \in {"authMiddleware", "logoutAll", "optionalAuthMiddleware"}
        /\ last.header.scheme = "Bearer"
        /\ last.header.token \in issued
        /\ IsRefreshKind(last.header.token))
          => /\ last.user = 0
             /\ last.op # "optionalAuthMiddleware"
                   => (last.status = 401 /\ ~last.nextCalled)

\* A live refresh token of a verified user was presented as a bearer
\* credential and was turned away.
C1_RefreshAsBearerRejected ==
    /\ last.op = "authMiddleware"
    /\ last.header.scheme = "Bearer"
    /\ last.header.token \in issued
    /\ IsRefreshKind(last.header.token)
    /\ Live(last.header.token)
    /\ last.storeOk
    /\ last.header.token.userId \in UserIds
    /\ users[last.header.token.userId].isVerified
    /\ last.status = 401
    /\ ~last.nextCalled

\* C2: authMiddleware calls the downstream handler only when the request
\* carries Authorization "Bearer <t>", t is signed with the secret, of type
\* access and not expired, and the user named by t exists with isVerified
\* true; the identity it attaches is that user.  In every other case the
\* response is 401 and the handler is not invoked.
C2_AuthMiddlewareGate ==
    last.op \in {"authMiddleware", "logoutAll"} =>
        LET token == last.header.token
            entitled == /\ last.header.scheme = "Bearer"
                        /\ token.key = JwtSecret
                        /\ token.type = "access"
                        /\ now < token.exp
                        /\ token.userId \in UserIds
                        /\ users[token.userId].isVerified
        IN /\ last.nextCalled => (entitled /\ last.user = token.userId)
           /\ ~last.nextCalled => (last.status = 401 /\ last.user = 0)
           /\ ~entitled => ~last.nextCalled

\* A live access token whose user exists but is not verified was rejected.
C2_UnverifiedBearerRejected ==
    /\ last.op = "authMiddleware"
    /\ last.header.scheme = "Bearer"
    /\ last.header.token \in issued
    /\ last.header.token.type = "access"
    /\ Live(last.header.token)
    /\ last.storeOk
    /\ last.header.token.userId \in UserIds
    /\ ~users[last.header.token.userId].isVerified
    /\ last.status = 401
    /\ ~last.nextCalled

\* C3: the refresh endpoint mints an access token only if the submitted
\* token is a valid refresh token (signature, type refresh, not expired) and
\* a stored row has that token, the userId of the token's payload and
\* expiresAt later than now; the minted token is an access token of that
\* user.  Otherwise the response is 401 and nothing is minted.
C3_RefreshGate ==
    last.op = "refreshToken" =>
        LET jwt == last.jwt
            entitled == /\ jwt.key = JwtSecret
                        /\ jwt.type = "refresh"
                        /\ now < jwt.exp
                        /\ \E row \in BagToSet(refreshTokens) :
                              /\ row.token = jwt
                              /\ row.userId = jwt.userId
                              /\ row.expiresAt > now
        IN /\ last.status \in {200, 401}
           /\ last.status = 200 =>
                 /\ entitled
                 /\ Cardinality(last.minted) = 1
                 /\ \A token \in last.minted :
                       /\ token.type = "access"
                       /\ token.userId = jwt.userId
                       /\ token.key = JwtSecret
           /\ last.status = 401 => last.minted = {}
           /\ ~entitled => last.status = 401

\* A live, issued refresh token whose row is gone was refused.
C3_NoRowRefused ==
    /\ last.op = "refreshToken"
    /\ last.jwt \in issued
    /\ last.jwt.type = "refresh"
    /\ Live(last.jwt)
    /\ last.storeOk
    /\ \A row \in BagToSet(refreshTokens) : row.token # last.jwt
    /\ last.status = 401

\* C4: a login with the right password for an account whose isVerified is
\* false answers 401 with code EMAIL_NOT_VERIFIED, issues no token and
\* creates no RefreshToken row.
C4_UnverifiedLoginRefused ==
    [][(/\ last'.op = "login"
        /\ \E id \in UserIds :
              /\ users[id].email = last'.email
              /\ users[id].password # NoHash
              /\ users[id].password.plain = last'.password
              /\ ~users[id].isVerified)
          => /\ last'.status = 401
             /\ last'.code = "EMAIL_NOT_VERIFIED"
             /\ last'.minted = {}
             /\ issued' = issued
             /\ refreshTokens' = refreshTokens]_vars

\* The right password of an unverified account was refused.
C4_UnverifiedLoginSeen ==
    /\ last.op = "login"
    /\ last.code = "EMAIL_NOT_VERIFIED"
    /\ \E id \in UserIds :
          /\ users[id].email = last.email
          /\ users[id].password # NoHash
          /\ users[id].password.plain = last.password
          /\ ~users[id].isVerified

\* The login request names no account that the password opens: the email is
\* not registered, the account has no password hash, or the password does
\* not match the hash.
LoginCannotOpen(email, password) ==
    \A id \in UserIds :
        users[id].email = email =>
            \/ users[id].password = NoHash
            \/ users[id].password.plain # password

\* C5 as stated: every login whose email is not registered, whose account
\* has no password hash, or whose password does not match answers 401,
\* issues no token and leaves the RefreshToken table unchanged.
C5_BadCredentialsAlways401 ==
    [][(last'.op = "login" /\ LoginCannotOpen(last'.email, last'.password))
          => /\ last'.status = 401
             /\ last'.minted = {}
             /\ issued' = issued
             /\ refreshTokens' = refreshTokens]_vars

\* C5: a login that passes the login schema (a well-formed email and a
\* non-empty password) and whose email is not registered, whose account has
\* no password hash, or whose password does not match answers 401, issues
\* no token and leaves the RefreshToken table unchanged.
C5_BadCredentialsRefused ==
    [][(/\ last'.op = "login"
        /\ IsEmail(last'.email)
        /\ Len(last'.password) >= 1
        /\ LoginCannotOpen(last'.email, last'.password))
          => /\ last'.status = 401
             /\ last'.minted = {}
             /\ issued' = issued
             /\ refreshTokens' = refreshTokens]_vars

\* A wrong password for a verified account that has a password was refused.
C5_WrongPasswordSeen ==
    /\ last.op = "login"
    /\ last.status = 401
    /\ last.minted = {}
    /\ \E id \in UserIds :
          /\ users[id].email = last.email
          /\ users[id].isVerified
          /\ users[id].password # NoHash
          /\ users[id].password.plain # last.password
          /\ Len(last.password) >= 1

\* C6 as stated: a refresh-token call made after a successful resetPassword
\* of user U, with a refresh token that was issued to U before the reset,
\* answers 401.
C6_PreResetTokenRefused ==
    (last.op = "refreshToken" /\ last.jwt \in preReset) => last.status = 401

\* C7: the refresh endpoint never creates, deletes or modifies a
\* RefreshToken row and never changes a user; the row that served a
\* successful exchange is still there afterwards, so the same token can be
\* exchanged again.
C7_RefreshLeavesStore ==
    [][last'.op = "refreshToken"
          => /\ users' = users
             /\ refreshTokens' = refreshTokens
             /\ last'.status = 200
                   => \E row \in BagToSet(refreshTokens') :
                         /\ row.token = last'.jwt
                         /\ row.userId = last'.jwt.userId
                         /\ row.expiresAt > now']_vars

\* A refresh token was exchanged and its row is still stored.
C7_ExchangedRowKept ==
    /\ last.op = "refreshToken"
    /\ last.status = 200
    /\ last.minted # {}
    /\ \E row \in BagToSet(refreshTokens) : row.token = last.jwt

\* C8 as stated: forgot-password answers every well-formed email with the
\* same 200 response, registered or not, email delivered or not.
C8_ForgotPasswordUniform ==
    (last.op = "forgotPassword" /\ forgotPasswordSchema(last.email) = "")
        => (last.status = 200 /\ last.body = GenericForgotMessage)

\* C9 as stated: in signup, resend-verification, forgot-password and
\* reset-password a failed email, sent after the store was changed, leaves
\* the response what it is when the email goes out.
C9_EmailFailureSwallowed ==
    (/\ last.op \in {"signup", "resendVerification", "forgotPassword",
                     "resetPassword"}
     /\ last.mail = "failed")
        => last.status = (IF last.op = "signup" THEN 201 ELSE 200)

WeakSignupForRegistered(email, password, name) ==
    /\ signupSchema(email, password, name) = ""
    /\ ~isPasswordStrong(password).valid
    /\ \E id \in UserIds : users[id].email = email

C12_ExpiredVerificationRefused ==
    [][(/\ last'.op = "verifyEmail"
        /\ \A id \in UserIds :
              \/ users[id].verificationToken # last'.opaque
              \/ users[id].verificationExpires <= now)
          => /\ last'.status = 400
             /\ users' = users]_vars

\* The token a user holds was presented at or after its expiry and refused;
\* the user is still unverified and still holds the token.
C12_ExpiredTokenSeen ==
    /\ last.op = "verifyEmail"
    /\ last.status = 400
    /\ \E id \in UserIds :
          /\ users[id].verificationToken = last.opaque
          /\ users[id].verificationExpires <= now
          /\ users[id].verificationExpires >= 0
          /\ ~users[id].isVerified

\* The requests of one kind that were answered 200 for one opaque token.
Succeeded(op, token) ==
    {c \in DOMAIN calls : /\ calls[c].op = op
                          /\ calls[c].opaque = token
                          /\ calls[c].status = 200}

\* C13 as stated: for each verification token at most one verifyEmail
\* request succeeds, and for each reset token at most one resetPassword
\* request succeeds, however the requests that present it overlap.
C13_SingleUse ==
    \A token \in 1..MaxOpaque :
        /\ Cardinality(Succeeded("verifyEmail", token)) <= 1
        /\ Cardinality(Succeeded("resetPassword", token)) <= 1

\* Some user of the table us holds the opaque token as verification token,
\* respectively as reset token.
HoldsVerification(us, token) ==
    \E id \in 1..Len(us) : us[id].verificationToken = token

HoldsReset(us, token) ==
    \E id \in 1..Len(us) : us[id].resetPasswordToken = token

\* C14: reissuing overwrites.  When resend-verification (forgot-password)
\* has stored a new token for a user, the token that user held before is
\* held by nobody; a token that has been mailed and is held by nobody is
\* never held again; and verifyEmail (resetPassword) with a token that
\* nobody holds answers 400.
C14_ReissueOverwrites ==
    [][/\ \A token \in 1..(nextOpaque - 1) :
             /\ ~HoldsVerification(users, token) => ~HoldsVerification(users', token)
             /\ ~HoldsReset(users, token) => ~HoldsReset(users', token)
       /\ (last'.op = "resendVerification" /\ last'.mail # "none")
             => LET old == users[findUserByEmail(last'.email)].verificationToken
                IN /\ old # 0 => ~HoldsVerification(users', old)
                   /\ users'[findUserByEmail(last'.email)].verificationToken \notin {0, old}
       /\ (last'.op = "forgotPassword" /\ last'.mail # "none")
             => LET old == users[findUserByEmail(last'.email)].resetPasswordToken
                IN /\ old # 0 => ~HoldsReset(users', old)
                   /\ users'[findUserByEmail(last'.email)].resetPasswordToken \notin {0, old}
       /\ (last'.op = "verifyEmail" /\ ~HoldsVerification(users, last'.opaque))
             => (last'.status = 400 /\ users' = users)
       /\ (last'.op = "resetPassword" /\ ~HoldsReset(users, last'.opaque))
             => (last'.status = 400 /\ users' = users)]_vars

\* The only user, still unverified, holds a verification token mailed after
\* the one presented: the presented token was overwritten by a resend, and
\* verifyEmail refused it before its expiry.
C14_OverwrittenTokenRefused ==
    /\ last.op = "verifyEmail"
    /\ last.status = 400
    /\ last.opaque >= 1
    /\ Len(users) = 1
    /\ ~users[1].isVerified
    /\ users[1].verificationToken > last.opaque
    /\ now < VerificationTTL

\* C15 as stated: a successful OAuth federation with an email that has no
\* user creates exactly one user, verified and without password hash; with
\* an email that has a user it creates none and that user then has an
\* externalId; and no two users share an email.
C15_FederationCreatesOrLinks ==
    [][(last'.op = "googleAuth" /\ last'.status = 200)
          => LET found == findUserByEmail(last'.google.email)
             IN /\ \A a, b \in 1..Len(users') :
                      users'[a].email = users'[b].email => a = b
                /\ found = 0
                      => /\ Len(users') = Len(users) + 1
                         /\ SubSeq(users', 1, Len(users)) = users
                         /\ users'[Len(users')].email = last'.google.email
                         /\ users'[Len(users')].isVerified
                         /\ users'[Len(users')].password = NoHash
                /\ found # 0
                      => /\ Len(users') = Len(users)
                         /\ users'[found].googleId # ""]_vars

\* C16 as stated: every user has a password hash or an externalId, and
\* every user that has an externalId, or that has no password hash (so was
\* created by OAuth federation), is verified.
C16_HashOrExternalId ==
    \A id \in UserIds :
        /\ users[id].password # NoHash \/ users[id].googleId # ""
        /\ (users[id].googleId # "" \/ users[id].password = NoHash)
              => users[id].isVerified

\* C17 as stated: the user that a successful OAuth federation returns is
\* stored with isVerified = true.
C17_FederatedUserVerified ==
    (last.op = "googleAuth" /\ last.status = 200)
        => (last.user \in UserIds /\ users[last.user].isVerified)

\* C18: OAuth federation answers 401 exactly when both the ID-token
\* verification and the userinfo fallback have failed, or when the resolved
\* profile has no email; whenever it does not answer 200, no user is
\* created or changed, no RefreshToken row is created and no token is
\* issued.
C18_FederationFailsClean ==
    [][last'.op = "googleAuth"
          => LET google == last'.google
                 bothFailed == google.kind \notin {"", "missing", "id", "access"}
                 noEmail == google.kind \in {"id", "access"} /\ google.email = NoEmail
             IN /\ last'.status = 401 <=> (bothFailed \/ noEmail)
                /\ (last'.status = 401 /\ last'.body = "Invalid Google token")
                      <=> bothFailed
                /\ last'.status # 200
                      => /\ users' = users
                         /\ refreshTokens' = refreshTokens
                         /\ issued' = issued
                         /\ last'.minted = {}]_vars

\* Both attempts failed while accounts existed: 401 and nothing minted.
C18_BothAttemptsFailed ==
    /\ last.op = "googleAuth"
    /\ ~googleTokenAccepted(last.google)
    /\ last.google.kind # "missing"
    /\ last.status = 401
    /\ last.minted = {}
    /\ Len(users) >= 1

\* C19: logout is idempotent.  It always answers 200 and changes no user;
\* when no stored row has the supplied token (never issued, logged out
\* before, or omitted) the RefreshToken table is unchanged; and after a
\* logout no row has the supplied token, so a second logout with the same
\* token leaves the store as the first one left it.
C19_LogoutIdempotent ==
    [][last'.op = "logout"
          => /\ last'.status = 200
             /\ users' = users
             /\ issued' = issued
             /\ (\A row \in BagToSet(refreshTokens) : row.token # last'.jwt)
                   => refreshTokens' = refreshTokens
             /\ \A row \in BagToSet(refreshTokens') : row.token # last'.jwt]_vars

\* A token that was never issued was logged out while rows were stored: 200.
C19_UnknownTokenLogout ==
    /\ last.op = "logout"
    /\ last.status = 200
    /\ last.jwt # NoJwt
    /\ last.jwt \notin issued
    /\ refreshTokens # EmptyBag

\* C20: logout-all deletes every RefreshToken row of the authenticated
\* caller and leaves the rows of every other user, and every user,
\* unchanged (a rejected logout-all changes nothing); logout deletes the
\* rows whose token is the supplied token and no other row.
C20_LogoutFrame ==
    [][/\ last'.op = "logoutAll"
             => /\ users' = users
                /\ issued' = issued
                /\ ~last'.nextCalled => refreshTokens' = refreshTokens
                /\ last'.nextCalled
                      => \A row \in BagToSet(refreshTokens) \cup BagToSet(refreshTokens') :
                            CopiesIn(row, refreshTokens') =
                               IF row.userId = last'.header.token.userId
                               THEN 0 ELSE CopiesIn(row, refreshTokens)
       /\ last'.op = "logout"
             => /\ users' = users
                /\ \A row \in BagToSet(refreshTokens) \cup BagToSet(refreshTokens') :
                      CopiesIn(row, refreshTokens') =
                         IF row.token = last'.jwt
                         THEN 0 ELSE CopiesIn(row, refreshTokens)]_vars

\* A caller who had been issued a refresh token logged out everywhere and
\* the row of another user is still stored.
C20_OtherUserRowKept ==
    /\ last.op = "logoutAll"
    /\ last.nextCalled
    /\ last.status = 200
    /\ \E token \in issued :
          token.type = "refresh" /\ token.userId = last.header.token.userId
    /\ \A row \in BagToSet(refreshTokens) :
          row.userId # last.header.token.userId
    /\ refreshTokens # EmptyBag

(***************************************************************************)
(* Sessions of one account: password sign-ins one after the other, in the  *)
(* same second or in different ones, with refresh and logout.  The bounds  *)
(* apply to each user.                                                     *)
(***************************************************************************)
WithinLogins ==
    \A id \in 1..Len(users') :
        /\ Cardinality({token \in issued' : token.userId = id}) <= 2 * MaxSessions
        /\ RowsOf(refreshTokens', id) <= MaxSessions

LoginNext ==
    \/ Deliver
    \/ Idle /\ UNCHANGED <<calls, tables>> /\ \E d \in Deadlines : Tick(d)
    \/ Idle /\ UNCHANGED <<calls, tables>> /\ \E email \in OpenEmails :
            signup(email, PwValid, "Ann", "s1", TRUE)
    \/ Idle /\ UNCHANGED <<calls, tables>> /\ \E token \in OpaqueInputs : verifyEmail(token)
    \/ Idle /\ UNCHANGED <<calls, tables>> /\ \E email \in Emails :
            login(email, PwValid) /\ WithinLogins
    \/ Idle /\ UNCHANGED <<calls, tables>> /\ \E jwt \in BodyJwts : \E storeOk \in StoreInputs(jwt) :
            refreshToken(jwt, storeOk) /\ WithinLogins
    \/ Idle /\ UNCHANGED <<calls, tables>> /\ \E jwt \in BodyJwts : logout(jwt)

SpecLogins == Init /\ [][LoginNext]_vars

\* C21 as stated: successful logins of one user are independent sessions.
\* Each successful login adds one RefreshToken row of its own, and a logout
\* with the refresh token of one session ends that session alone: it removes
\* one row, so that the row of every other session is still stored and its
\* token is still exchanged at the refresh endpoint.
C21_SessionsIndependent ==
    [][/\ (last'.op = "login" /\ last'.status = 200)
             => BagCardinality(refreshTokens') = BagCardinality(refreshTokens) + 1
       /\ last'.op = "logout"
             => /\ BagCardinality(refreshTokens') >= BagCardinality(refreshTokens) - 1
                /\ \A row \in BagToSet(refreshTokens) :
                      row.token # last'.jwt
                         => CopiesIn(row, refreshTokens') = CopiesIn(row, refreshTokens)]_vars

(***************************************************************************)
(* The password policy checker called on its own: the transcript holds the *)
(* password it is given and, once it has returned, its verdict and         *)
(* message.                                                                *)
(***************************************************************************)
PwUpper == <<"A", "L", "L", "U", "P", "P", "E", "R", "1", "!">>
PwNoDigit == <<"N", "o", "D", "i", "g", "i", "t", "s", "!", "!">>
PwNoSpecial == <<"N", "o", "S", "p", "e", "c", "i", "a", "l", "1">>

\* One character of each class of the policy, and one of no class.
PolicyChars == {"a", "A", "1", "!", "-"}

PolicyPad == <<"-", "-", "-", "-", "-", "-">>

PolicyTails == UNION {[1..n -> PolicyChars] : n \in 0..MaxTail}

PolicyPasswords ==
    PolicyTails
    \cup {PolicyPad \o tail : tail \in PolicyTails}
    \cup {PwShort, PwLower, PwUpper, PwNoDigit, PwNoSpecial, PwValid}

PolicyInit ==
    /\ users = <<>>
    /\ refreshTokens = EmptyBag
    /\ now = 0
    /\ ticks = 0
    /\ issued = {}
    /\ nextOpaque = 1
    /\ last \in {[NoRequest EXCEPT !.op = "isPasswordStrong", !.password = password] :
                    password \in PolicyPasswords}
    /\ preReset = {}
    /\ calls = [c \in 1..MaxCalls |-> NoCall]
    /\ categories = {}
    /\ knowledgeItems = {}

checkPassword ==
    LET passwordCheck == isPasswordStrong(last.password)
    IN
    /\ last.op = "isPasswordStrong"
    /\ last.code = ""
    /\ last' = [last EXCEPT !.code = IF passwordCheck.valid THEN "valid" ELSE "invalid",
                            !.body = passwordCheck.message]
    /\ UNCHANGED <<users, refreshTokens, now, ticks, issued, nextOpaque,
                   preReset, calls, tables>>

PolicyNext == checkPassword

SpecPolicy == PolicyInit /\ [][PolicyNext]_vars

\* C22: the password policy checker evaluates five rules in the order
\* length >= 8, lowercase letter, uppercase letter, digit, one of @$!%*?& .
\* It reports the first rule that is violated and answers valid exactly when
\* all five hold; it rejects "short1!", "alllower1!", "ALLUPPER1!",
\* "NoDigits!!" and "NoSpecial1" and accepts "Valid123!".
C22_PolicyOrder ==
    (last.op = "isPasswordStrong" /\ last.code # "") =>
        LET password == last.password
            has(chars) == \E i \in DOMAIN password : password[i] \in chars
            rule == <<Len(password) >= 8,
                      has(LowerChars),
                      has(UpperChars),
                      has(DigitChars),
                      has({"@", "$", "!", "%", "*", "?", "&"})>>
            message == <<"Password must be at least 8 characters long",
                         "Password must contain at least one lowercase letter",
                         "Password must contain at least one uppercase letter",
                         "Password must contain at least one number",
                         "Password must contain at least one special character">>
            violated == {i \in 1..5 : ~rule[i]}
        IN /\ last.code = "valid" <=> violated = {}
           /\ violated # {}
                 => \E i \in violated : /\ \A j \in violated : i <= j
                                        /\ last.body = message[i]
           /\ password \in {PwShort, PwLower, PwUpper, PwNoDigit, PwNoSpecial}
                 => last.code = "invalid"
           /\ password = PwValid => last.code = "valid"

\* A password of eight characters with neither an uppercase letter nor a
\* digit was checked: the uppercase rule is the one reported.
C22_FirstFailureReported ==
    /\ last.op = "isPasswordStrong"
    /\ last.code = "invalid"
    /\ Len(last.password) >= 8
    /\ HasChar(last.password, LowerChars)
    /\ ~HasChar(last.password, UpperChars)
    /\ ~HasChar(last.password, DigitChars)
    /\ last.body = "Password must contain at least one uppercase letter"

\* The users whom a reset token finds at time t.
ResetOwners(us, t, token) ==
    {id \in 1..Len(us) : /\ us[id].resetPasswordToken = token
                          /\ us[id].resetPasswordToken # 0
                          /\ us[id].resetPasswordExpires > t}

\* C23: shape and policy violations are rejected before any store mutation.
\* A signup or a reset-password request that fails its schema or the
\* Password Policy is answered with 400 and leaves every user and every
\* RefreshToken row as it was and generates no token; after a refused
\* reset-password the reset token still finds its owner.
C23_FailFast ==
    [][/\ (/\ last'.op = "signup"
           /\ \/ signupSchema(last'.email, last'.password, last'.name) # ""
              \/ ~isPasswordStrong(last'.password).valid)
             => /\ last'.status = 400
                /\ users' = users
                /\ refreshTokens' = refreshTokens
                /\ nextOpaque' = nextOpaque
       /\ (/\ last'.op = "resetPassword"
           /\ \/ resetPasswordSchema(last'.opaque, last'.password) # ""
              \/ ~isPasswordStrong(last'.password).valid)
             => /\ last'.status = 400
                /\ users' = users
                /\ refreshTokens' = refreshTokens
                /\ nextOpaque' = nextOpaque
                /\ ResetOwners(users', now', last'.opaque) = ResetOwners(users, now, last'.opaque)]_vars

\* A reset-password with a live reset token and a password that fails the
\* policy was refused while its owner had a refresh token stored: the token
\* still finds its owner and the row is still there.
C23_WeakResetRefused ==
    /\ last.op = "resetPassword"
    /\ last.status = 400
    /\ resetPasswordSchema(last.opaque, last.password) = ""
    /\ ~isPasswordStrong(last.password).valid
    /\ findUserByResetToken(last.opaque) # 0
    /\ \E row \in BagToSet(refreshTokens) :
          row.userId = findUserByResetToken(last.opaque)

\* C24: resend-verification, for the email that the request carries, answers
\* 404 when no user has that email and 400 when the user is verified,
\* changing nothing in either case; otherwise it overwrites the user's
\* verificationToken with a token that was never generated before and
\* verificationExpires with now + 24h, and leaves isVerified false and
\* everything else as it was.
C24_ResendBranches ==
    [][(last'.op = "resendVerification" /\ last'.email # NoEmail) =>
          LET user == findUserByEmail(last'.email)
          IN IF user = 0 THEN
                  /\ last'.status = 404
                  /\ users' = users
                  /\ nextOpaque' = nextOpaque
             ELSE IF users[user].isVerified THEN
                  /\ last'.status = 400
                  /\ users' = users
                  /\ nextOpaque' = nextOpaque
             ELSE
                  /\ users'[user].verificationToken >= nextOpaque
                  /\ users'[user].verificationExpires = now + 86400
                  /\ ~users'[user].isVerified
                  /\ users' = [users EXCEPT
                        ![user].verificationToken = users'[user].verificationToken,
                        ![user].verificationExpires = users'[user].verificationExpires]
                  /\ refreshTokens' = refreshTokens]_vars

\* A resend for an unverified user at a later time than the signup: the
\* user holds the newest token, which expires 24h after the resend.
C24_TokenRegenerated ==
    /\ last.op = "resendVerification"
    /\ now > 0
    /\ last.user \in UserIds
    /\ ~users[last.user].isVerified
    /\ users[last.user].verificationToken = nextOpaque - 1
    /\ users[last.user].verificationExpires = now + 86400

\* C25: optionalAuthMiddleware never fails the request.  Whatever the
\* header, the token and the outcome of the store call, it sends no response
\* of its own and hands the request to the downstream handler; it attaches
\* a user exactly when the resolution of authMiddleware succeeds for the
\* same request, and then it is the user that resolution yields.
C25_OptionalNeverFails ==
    last.op = "optionalAuthMiddleware" =>
        /\ last.nextCalled
        /\ last.status = 0
        /\ last.body = ""
        /\ last.user # 0 <=> authResolve(last.header, last.storeOk).next
        /\ last.user = authResolve(last.header, last.storeOk).user

\* The store call failed for a live access token: the request went on
\* without a user.
C25_StoreErrorPassedOn ==
    /\ last.op = "optionalAuthMiddleware"
    /\ last.header.scheme = "Bearer"
    /\ verifyAccessToken(last.header.token, now)
    /\ ~last.storeOk
    /\ last.nextCalled
    /\ last.status = 0
    /\ last.user = 0

\* The ways a token that a handler was given can fail verification.
Forged(token) == token.key # JwtSecret

Expired(token) == now >= token.exp

\* No stored row holds the token: it was logged out, reset away or never
\* stored.
Revoked(token) == \A row \in BagToSet(refreshTokens) : row.token # token

\* C26: token verification failures are indistinguishable to the caller.
\* The refresh endpoint answers a present token that is forged, expired, of
\* the access kind or revoked with one and the same status and body, and
\* authMiddleware (also in front of logout-all) answers a bearer token that
\* is forged, expired or of the refresh kind with one and the same status
\* and body.
C26_FailuresIndistinguishable ==
    /\ (/\ last.op = "refreshToken"
        /\ last.jwt # NoJwt
        /\ \/ Forged(last.jwt)
           \/ Expired(last.jwt)
           \/ last.jwt.type # "refresh"
           \/ Revoked(last.jwt))
          => /\ last.status = 401
             /\ last.body = "Invalid or expired refresh token"
             /\ last.code = ""
             /\ last.minted = {}
    /\ (/\ last.op \in {"authMiddleware", "logoutAll"}
        /\ last.header.scheme = "Bearer"
        /\ \/ Forged(last.header.token)
           \/ Expired(last.header.token)
           \/ last.header.token.type # "access")
          => /\ last.status = 401
             /\ last.body = "Invalid or expired token"
             /\ last.code = ""
             /\ ~last.nextCalled

\* An issued refresh token was refused after its expiry with the answer a
\* forged token gets.
C26_ExpiredLikeForged ==
    /\ last.op = "refreshToken"
    /\ last.jwt \in issued
    /\ last.jwt.type = "refresh"
    /\ Expired(last.jwt)
    /\ last.status = 401
    /\ last.body = "Invalid or expired refresh token"

\* C27: once the expiry of a signed token has elapsed the token fails
\* verification.  At every time from its exp on, an access token is answered
\* 401 by authMiddleware (also in front of logout-all) and the handler is
\* not called; a refresh token is answered 401 by the refresh endpoint at
\* every time from its exp on and at every time from the expiresAt of its
\* stored rows on, and no access token is minted.
C27_ExpiredStaysRejected ==
    /\ (/\ last.op \in {"authMiddleware", "logoutAll"}
        /\ last.header.scheme = "Bearer"
        /\ now >= last.header.token.exp)
          => /\ last.status = 401
             /\ ~last.nextCalled
    /\ (/\ last.op = "refreshToken"
        /\ last.jwt # NoJwt
        /\ \/ now >= last.jwt.exp
           \/ /\ \E row \in BagToSet(refreshTokens) : row.token = last.jwt
              /\ \A row \in BagToSet(refreshTokens) :
                    row.token = last.jwt => now >= row.expiresAt)
          => /\ last.status = 401
             /\ last.minted = {}

\* The access token of a verified user, issued and correctly signed, was
\* presented after its expiry, the store answering: 401.
C27_ExpiredAccessRejected ==
    /\ last.op = "authMiddleware"
    /\ last.header.scheme = "Bearer"
    /\ last.header.token \in issued
    /\ last.header.token.type = "access"
    /\ now > last.header.token.exp
    /\ last.storeOk
    /\ findVerifiedUser(last.header.token.userId) # 0
    /\ last.status = 401
    /\ ~last.nextCalled

(***************************************************************************)
(* The protected routes: users sign in through the provider, and the       *)
(* handlers behind authMiddleware read the id of the caller.               *)
(***************************************************************************)
ProtectedNext ==
    \/ Deliver
    \/ Idle /\ UNCHANGED <<calls, tables>> /\ \E google \in GoogleInputs :
            googleAuth(google) /\ WithinUserSessions
    \/ Idle /\ UNCHANGED <<calls, tables>> /\ \E route \in ProtectedRoutes, header \in Headers :
            \E storeOk \in StoreInputs(header.token) : protectedRoute(route, header, storeOk)
    \/ Idle /\ UNCHANGED <<calls, tables>> /\ \E header \in Headers :
            \E storeOk \in StoreInputs(header.token) : logoutAll(header, storeOk)
    \/ Idle /\ UNCHANGED <<calls, tables>> /\ \E header \in Headers : \E storeOk \in StoreInputs(header.token) :
            \E confirmed \in ConfirmInputs(header, storeOk) :
                deleteAccount(header, storeOk, confirmed)

SpecProtected == Init /\ [][ProtectedNext]_vars

\* C28 as stated: in every protected handler (categories, knowledge items,
\* users, logout-all) the value that the handler reads as the id of the
\* caller is the id of the user that authMiddleware resolved.
C28_CallerIdResolved ==
    (/\ last.op \in ProtectedRoutes \cup {"logoutAll", "deleteAccount"}
     /\ last.nextCalled)
        => (last.user \in UserIds /\ last.callerId = last.user)

\* C29: the signup-verify-login path.  A successful signup appends a user
\* with isVerified = false, the hash of the password and a verification
\* token that expires 24h later, and hands out no token.  A verifyEmail with
\* the token that a user holds, before its expiry, answers 200, sets
\* isVerified and clears verificationToken and verificationExpires.  A login
\* with the email and the password of a verified user answers 200, hands
\* out a refresh token and stores one row for it with expiresAt = now + 7
\* days.
C29_SignupVerifyLogin ==
    [][/\ (last'.op = "signup" /\ last'.status = 201)
             => /\ Len(users') = Len(users) + 1
                /\ last'.user = Len(users')
                /\ \A id \in UserIds : users'[id] = users[id]
                /\ users'[Len(users')].email = last'.email
                /\ ~users'[Len(users')].isVerified
                /\ comparePassword(last'.password, users'[Len(users')].password)
                /\ users'[Len(users')].verificationToken # 0
                /\ users'[Len(users')].verificationExpires = now + 86400
                /\ last'.minted = {}
                /\ issued' = issued
                /\ refreshTokens' = refreshTokens
       /\ last'.op = "verifyEmail"
             => \A id \in UserIds :
                   (/\ users[id].verificationToken = last'.opaque
                    /\ users[id].verificationToken # 0
                    /\ users[id].verificationExpires > now)
                      => /\ last'.status = 200
                         /\ users' = [users EXCEPT ![id].isVerified = TRUE,
                                                   ![id].verificationToken = 0,
                                                   ![id].verificationExpires = -1]
       /\ last'.op = "login"
             => \A id \in UserIds :
                   (/\ users[id].email = last'.email
                    /\ users[id].isVerified
                    /\ comparePassword(last'.password, users[id].password))
                      => /\ last'.status = 200
                         /\ last'.user = id
                         /\ \E token \in last'.minted :
                               /\ token.type = "refresh"
                               /\ token.userId = id
                               /\ refreshTokens' = refreshTokens (+)
                                     SetToBag({[token |-> token, userId |-> id,
                                                expiresAt |-> now + 604800]})]_vars

\* A user who signed up with a password and verified the email logged in at
\* a later time: the row of the session expires 7 days after the login.
C29_VerifiedSignupLoggedIn ==
    /\ last.op = "login"
    /\ last.status = 200
    /\ now > 0
    /\ last.user \in UserIds
    /\ users[last.user].password # NoHash
    /\ users[last.user].googleId = ""
    /\ users[last.user].isVerified
    /\ \E row \in BagToSet(refreshTokens) :
          /\ row.userId = last.user
          /\ row.token \in last.minted
          /\ row.expiresAt = now + 604800

\* Some row has more (fewer) copies after the step than before.
RowAdded ==
    \E row \in BagToSet(refreshTokens') :
        CopiesIn(row, refreshTokens') > CopiesIn(row, refreshTokens)

RowRemoved ==
    \E row \in BagToSet(refreshTokens) :
        CopiesIn(row, refreshTokens') < CopiesIn(row, refreshTokens)

\* Each row belongs to an existing user, the one its token was signed for.
RowsOwned(rows, us) ==
    \A row \in BagToSet(rows) :
        /\ row.userId \in 1..Len(us)
        /\ us[row.userId] # DeletedUser
        /\ row.token.userId = row.userId

\* C30: RefreshToken rows are created only by a successful login or a
\* successful federation, one row per success, and never by the refresh
\* endpoint; rows are deleted only by logout, logout-all, password reset or
\* the deletion of the owning user; and in every reachable state (before
\* and after every step) the userId of each row is the id of an existing
\* user and equals the subject signed into the token of the row.
C30_RowLifecycle ==
    [][/\ RowsOwned(refreshTokens, users)
       /\ RowsOwned(refreshTokens', users')
       /\ RowAdded => (last'.op \in {"login", "googleAuth"} /\ last'.status = 200)
       /\ (last'.op \in {"login", "googleAuth"} /\ last'.status = 200)
             => /\ BagCardinality(refreshTokens') = BagCardinality(refreshTokens) + 1
                /\ ~RowRemoved
       /\ last'.op = "refreshToken" => refreshTokens' = refreshTokens
       /\ RowRemoved
             => last'.op \in {"logout", "logoutAll", "resetPassword", "deleteAccount"}]_vars

\* A federated sign-in succeeded and stored the row of its refresh token
\* for the user it signed in.
C30_FederationRowStored ==
    /\ last.op = "googleAuth"
    /\ last.status = 200
    /\ \E row \in BagToSet(refreshTokens) :
          /\ row.token \in last.minted
          /\ row.userId = last.user
          /\ row.token.userId = last.user
    /\ BagCardinality(refreshTokens) = 1

(***************************************************************************)
(* Password reset and the credential check of login.                       *)
(***************************************************************************)
\* The passwords that pass the schema and the policy.
StrongPasswords == {PwValid, PwOther}

\* C31: a successful resetPassword stores a hash of the new password and
\* clears resetPasswordToken and resetPasswordExpires of the user the token
\* found; in the state it leaves, login with a password that matched the old
\* hash and differs from the new password takes the Unauthorized branch,
\* login with the new password passes the credential check, and the user's
\* isVerified, email, name, googleId, verificationToken and
\* verificationExpires, and every other user, are as before.
C31_ResetReplacesPassword ==
    [][(last'.op = "resetPassword" /\ last'.status = 200) =>
          /\ Len(users') = Len(users)
          /\ last'.user \in UserIds
          /\ \A id \in UserIds :
                IF id = last'.user THEN
                    /\ users'[id] = [users[id] EXCEPT
                                        !.password = users'[id].password,
                                        !.resetPasswordToken = 0,
                                        !.resetPasswordExpires = -1]
                    /\ \A p \in StrongPasswords :
                          /\ p = last'.password =>
                                /\ comparePassword(p, users'[id].password)
                                /\ (loginCheck(users[id].email, p))'
                                       \in {"ok", "unverified"}
                          /\ (p # last'.password
                                /\ comparePassword(p, users[id].password)) =>
                                /\ ~comparePassword(p, users'[id].password)
                                /\ (loginCheck(users[id].email, p))' = "credentials"
                ELSE users'[id] = users[id]]_vars

\* After a reset to another password, a login with the password of the signup
\* was answered 401 Unauthorized.
C31_OldPasswordRefused ==
    /\ last.op = "login"
    /\ last.status = 401
    /\ last.body = "Invalid email or password"
    /\ last.password = PwValid
    /\ \E id \in UserIds :
          /\ users[id].email = last.email
          /\ comparePassword(PwOther, users[id].password)
          /\ users[id].resetPasswordToken = 0

(***************************************************************************)
(* Issuance of tokens.                                                     *)
(***************************************************************************)
\* The subjects of a set of tokens.
Subjects(tokens) == {token.userId : token \in tokens}

\* C32: tokens are minted only by a login whose password matched the hash of
\* the subject while the subject was verified, by a federation whose accepted
\* Google token carries the email of the subject, or (one access token) by a
\* refresh-token call that presented a verified refresh token with a live
\* stored row owned by the subject; no other step adds a token.
C32_IssuedAfterAuthentication ==
    [][/\ issued' \subseteq issued \cup last'.minted
       /\ last'.minted # {} =>
            /\ last'.status = 200
            /\ Subjects(last'.minted) = {last'.user}
            /\ last'.user \in 1..Len(users')
            /\ \/ /\ last'.op = "login"
                  /\ last'.user \in UserIds
                  /\ users[last'.user].email = last'.email
                  /\ comparePassword(last'.password, users[last'.user].password)
                  /\ users[last'.user].isVerified
                  /\ {token.type : token \in last'.minted} = {"access", "refresh"}
               \/ /\ last'.op = "googleAuth"
                  /\ googleTokenAccepted(last'.google)
                  /\ googleUser(last'.google).email # NoEmail
                  /\ users'[last'.user].email = googleUser(last'.google).email
                  /\ {token.type : token \in last'.minted} = {"access", "refresh"}
               \/ /\ last'.op = "refreshToken"
                  /\ {token.type : token \in last'.minted} = {"access"}
                  /\ Cardinality(last'.minted) = 1
                  /\ verifyRefreshToken(last'.jwt, now)
                  /\ \E row \in BagToSet(refreshTokens) :
                        /\ row.token = last'.jwt
                        /\ row.userId = last'.user
                        /\ row.expiresAt > now]_vars

\* A refresh-token call minted an access token for an account that has no
\* password: its refresh token came from a federation.
C32_RefreshMintedForFederated ==
    /\ last.op = "refreshToken"
    /\ last.status = 200
    /\ last.minted # {}
    /\ last.user \in UserIds
    /\ users[last.user].password = NoHash
    /\ findRefreshToken(last.jwt, last.user)

(***************************************************************************)
(* A login that overlaps a password reset.  login awaits findUnique, then  *)
(* compares, then awaits refreshToken.create; resetPassword awaits         *)
(* findFirst, then user.update, then refreshToken.deleteMany.  No          *)
(* transaction spans the calls of a handler.                               *)
(***************************************************************************)
\* login up to the decision on the row that findUnique returned: 400 or 401,
\* or the request goes on to generate tokens.
loginFind(c, email, password) ==
    LET user == findUserByEmail(email)
        req == [NoCall EXCEPT !.op = "login", !.password = password,
                              !.user = user,
                              !.hash = IF user = 0 THEN NoHash
                                       ELSE users[user].password]
        check == loginCheck(email, password)
    IN
    /\ c \in FreeCalls
    /\ calls' = [calls EXCEPT ![c] =
                    IF check = "shape" THEN [req EXCEPT !.stage = "done", !.status = 400]
                    ELSE IF check \in {"credentials", "unverified"}
                      THEN [req EXCEPT !.stage = "done", !.status = 401]
                    ELSE [req EXCEPT !.stage = "found"]]
    /\ UNCHANGED <<users, refreshTokens, now, ticks, issued, nextOpaque, last,
                   preReset>>

\* login from the generation of the tokens on: refreshToken.create and 200.
loginCreate(c) ==
    /\ calls[c].op = "login"
    /\ calls[c].stage = "found"
    /\ LET user == calls[c].user
           accessToken == generateAccessToken(user, now)
           refreshTok == generateRefreshToken(user, now)
       IN /\ refreshTokens' = createRefreshRow(refreshTok, user)
          /\ issued' = issued \cup {accessToken, refreshTok}
          /\ calls' = [calls EXCEPT ![c].stage = "done", ![c].status = 200]
    /\ UNCHANGED <<users, now, ticks, nextOpaque, last, preReset>>

\* resetPassword from the answer of findFirst to the end of user.update.
resetPasswordWrite(c, salt) ==
    /\ calls[c].op = "resetPassword"
    /\ calls[c].stage = "found"
    /\ LET user == calls[c].user
       IN IF user = 0 THEN
               /\ calls' = [calls EXCEPT ![c].stage = "done", ![c].status = 400]
               /\ UNCHANGED users
          ELSE
               /\ users' = [users EXCEPT
                              ![user].password = hashPassword(calls[c].password, salt),
                              ![user].resetPasswordToken = 0,
                              ![user].resetPasswordExpires = -1]
               /\ calls' = [calls EXCEPT ![c].stage = "updated"]
    /\ UNCHANGED <<refreshTokens, now, ticks, issued, nextOpaque, last, preReset>>

\* A reset that answers without deleting the rows of the user.
resetPasswordRevoke_KeepRows(c) ==
    /\ calls[c].op = "resetPassword"
    /\ calls[c].stage = "updated"
    /\ calls' = [calls EXCEPT ![c].stage = "done", ![c].status = 200]
    /\ UNCHANGED <<users, refreshTokens, now, ticks, issued, nextOpaque, last,
                   preReset>>

\* resetPassword from refreshToken.deleteMany to the response.
resetPasswordRevoke(c) ==
    /\ calls[c].op = "resetPassword"
    /\ calls[c].stage = "updated"
    /\ refreshTokens' = deleteAllRefreshTokens(calls[c].user)
    /\ preReset' = preReset \cup IssuedRefresh(calls[c].user)
    /\ calls' = [calls EXCEPT ![c].stage = "done", ![c].status = 200]
    /\ UNCHANGED <<users, now, ticks, issued, nextOpaque, last>>

\* The account is set up and the reset token is mailed by whole requests;
\* login and resetPassword overlap.
ResetRaceNext ==
    \/ Deliver
    \/ Idle /\ UNCHANGED <<calls, tables>> /\ \E email \in OpenEmails :
            signup(email, PwValid, "Ann", "s1", TRUE)
    \/ Idle /\ UNCHANGED <<calls, tables>> /\ \E token \in OpaqueInputs : verifyEmail(token)
    \/ Idle /\ UNCHANGED <<calls, tables>> /\ \E email \in Emails : forgotPassword(email, TRUE)
    \/ UNCHANGED tables /\ \E c \in DOMAIN calls, email \in Emails, password \in StrongPasswords :
            loginFind(c, email, password)
    \/ UNCHANGED tables /\ \E c \in DOMAIN calls : loginCreate(c) /\ WithinUserSessions
    \/ UNCHANGED tables /\ \E c \in DOMAIN calls, token \in OpaqueInputs :
            resetPasswordFind(c, token, PwOther)
    \/ UNCHANGED tables /\ \E c \in DOMAIN calls : resetPasswordWrite(c, "s2")
    \/ UNCHANGED tables /\ \E c \in DOMAIN calls : resetPasswordRevoke(c)

SpecResetRace == Init /\ [][ResetRaceNext]_vars

\* The overlapping resetPassword requests that were answered 200 for a user.
ResetDone(cs, userId) ==
    {r \in DOMAIN cs : /\ cs[r].op = "resetPassword"
                       /\ cs[r].status = 200
                       /\ cs[r].user = userId}

\* C33 as stated: once resetPassword for user U has responded with success,
\* no login that compared the password with a hash other than U's new hash
\* stores a RefreshToken row for U; no interleaving lets a login that was
\* authenticated with the old password leave a usable row behind.
C33_NoStaleLoginRow ==
    [][\A c \in DOMAIN calls :
          (/\ calls[c].op = "login"
           /\ calls[c].stage = "found"
           /\ calls'[c].stage = "done"
           /\ ResetDone(calls, calls[c].user) # {})
             => calls[c].hash = users[calls[c].user].password]_vars

\* C33, amended: the reset is not atomic with a login in flight.  The
\* deleteMany of resetPassword removes every row that U owns at that moment
\* and no row of another user; a login that reads U's row after the update of
\* the reset goes on only if its password matches the new hash; the insert of
\* a login adds one row for the user whose hash, as findUnique returned it,
\* matched the password, whenever that insert runs, so a row inserted after
\* the deleteMany by a login that read the old hash stays.
C33_ResetRevokesStoredRows ==
    [][\A c \in DOMAIN calls :
          /\ (calls[c].op = "resetPassword" /\ calls[c].stage = "updated"
              /\ calls'[c].stage = "done")
                => /\ calls'[c].status = 200
                   /\ RowsOf(refreshTokens', calls[c].user) = 0
                   /\ \A id \in UserIds \ {calls[c].user} :
                         RowsOf(refreshTokens', id) = RowsOf(refreshTokens, id)
          /\ (calls[c].stage = "free" /\ calls'[c].op = "login"
              /\ calls'[c].stage = "found")
                => /\ calls'[c].user \in UserIds
                   /\ calls'[c].hash = users[calls'[c].user].password
                   /\ comparePassword(calls'[c].password, calls'[c].hash)
                   /\ users[calls'[c].user].isVerified
          /\ (calls[c].op = "login" /\ calls[c].stage = "found"
              /\ calls'[c].stage = "done")
                => /\ calls'[c].status = 200
                   /\ comparePassword(calls[c].password, calls[c].hash)
                   /\ RowsOf(refreshTokens', calls[c].user)
                         = RowsOf(refreshTokens, calls[c].user) + 1]_vars

\* resetPassword has answered 200 for a user, a login that matched the old
\* hash has answered 200 as well, and the row of that login is stored and
\* live.
C33_StaleLoginRowKept ==
    \E c \in DOMAIN calls :
        /\ calls[c].op = "login"
        /\ calls[c].status = 200
        /\ ResetDone(calls, calls[c].user) # {}
        /\ calls[c].hash # users[calls[c].user].password
        /\ ~comparePassword(calls[c].password, users[calls[c].user].password)
        /\ findRefreshToken(generateRefreshToken(calls[c].user, now), calls[c].user)

(***************************************************************************)
(* The isVerified column.                                                  *)
(***************************************************************************)
\* C34: isVerified is monotonic.  No step removes a user or changes a user's
\* isVerified from true to false; a step that changes it from false to true
\* is a verifyEmail answered 200 whose token was the user's live
\* verificationToken, or a federation answered 200 whose Google profile
\* carries the user's email.
C34_VerifiedMonotonic ==
    [][/\ Len(users') >= Len(users)
       /\ \A id \in UserIds :
             /\ users[id].isVerified => users'[id].isVerified
             /\ (~users[id].isVerified /\ users'[id].isVerified) =>
                   /\ last'.status = 200
                   /\ \/ /\ last'.op = "verifyEmail"
                         /\ last'.opaque # 0
                         /\ users[id].verificationToken = last'.opaque
                         /\ users[id].verificationExpires > now
                      \/ /\ last'.op = "googleAuth"
                         /\ googleTokenAccepted(last'.google)
                         /\ users[id].email = googleUser(last'.google).email]_vars

\* A federation has verified an account that was opened by signup and that
\* never used its verification token.
C34_VerifiedByFederation ==
    /\ last.op = "googleAuth"
    /\ last.status = 200
    /\ last.user \in UserIds
    /\ users[last.user].password # NoHash
    /\ users[last.user].verificationToken # 0
    /\ users[last.user].isVerified

(***************************************************************************)
(* What the response of login tells a caller who has no password.          *)
(***************************************************************************)
\* C35: for a well-formed login request, the response is the same record
\* (401, "Invalid email or password", no code, no user, no token) when the
\* email is unregistered, when the account has no password hash, and when
\* the password does not match, whether the account is verified or not; the
\* code EMAIL_NOT_VERIFIED is sent only by a login whose password matched the
\* hash of an unverified account.
C35_LoginRevealsNothing ==
    /\ (/\ last.op = "login"
        /\ loginSchema(last.email, last.password) = ""
        /\ LoginCannotOpen(last.email, last.password))
          => last = [NoRequest EXCEPT !.op = "login", !.email = last.email,
                                      !.password = last.password,
                                      !.status = 401,
                                      !.body = "Invalid email or password"]
    /\ last.code = "EMAIL_NOT_VERIFIED"
          => /\ last.op = "login"
             /\ \E id \in UserIds :
                   /\ users[id].email = last.email
                   /\ comparePassword(last.password, users[id].password)
                   /\ ~users[id].isVerified

\* A wrong password for an unverified account that has a password was
\* answered like an unknown email.
C35_UnverifiedWrongPassword ==
    /\ last.op = "login"
    /\ last.status = 401
    /\ last.body = "Invalid email or password"
    /\ last.code = ""
    /\ \E id \in UserIds :
          /\ users[id].email = last.email
          /\ ~users[id].isVerified
          /\ users[id].password # NoHash
          /\ ~comparePassword(last.password, users[id].password)

(***************************************************************************)
(* Categories router (src/routes/categories.ts) behind authMiddleware.     *)
(* A category row is [id, name, userId].                                   *)
(***************************************************************************)
\* A where clause { userId }: Prisma leaves a key whose value is undefined
\* out of the filter.
byUser(row, userId) == userId = undefined \/ row.userId = userId

\* prisma.category.findFirst({ where: { id, userId } }): the matching rows.
findCategory(id, userId) ==
    {c \in categories : c.id = id /\ byUser(c, userId)}

\* The id that the store gives to a new category: one that no stored
\* category has.
newCategoryId ==
    CHOOSE id \in 1..MaxCategories :
        /\ \A c \in categories : c.id # id
        /\ \A other \in 1..(id - 1) : \E c \in categories : c.id = other

\* The request up to the handler: the response of authMiddleware, or the
\* request object with which the handler of the route is called.
enterRoute(route, header, storeOk) ==
    LET req == [NoRequest EXCEPT !.op = route, !.header = header,
                                 !.storeOk = storeOk]
        auth == authResolve(header, storeOk)
    IN IF ~auth.next
       THEN Reply(req, auth.status, auth.body)
       ELSE [req EXCEPT !.nextCalled = TRUE, !.user = auth.user,
                        !.callerId = handlerUserId(route, attachUser(auth.user))]

\* router.get("/", authMiddleware, ...)
listCategories(header, storeOk) ==
    LET req == enterRoute("GET /categories", header, storeOk)
    IN
    /\ UNCHANGED <<users, refreshTokens, now, ticks, issued, nextOpaque, preReset,
                   tables>>
    /\ last' = IF ~req.nextCalled THEN req
               ELSE [Reply(req, 200, "")
                        EXCEPT !.result = {c.id : c \in {row \in categories :
                                                            byUser(row, req.callerId)}}]

\* router.post("/", authMiddleware, ...)
createCategory(header, storeOk, name) ==
    LET req == [enterRoute("POST /categories", header, storeOk) EXCEPT !.name = name]
        userId == req.callerId
    IN
    /\ UNCHANGED <<users, refreshTokens, now, ticks, issued, nextOpaque, preReset,
                   knowledgeItems>>
    /\ IF ~req.nextCalled THEN
            /\ last' = req
            /\ UNCHANGED categories
       ELSE IF name = "" THEN
            /\ last' = Reply(req, 400, "Category name is required")
            /\ UNCHANGED categories
       ELSE IF \E c \in categories : byUser(c, userId) /\ c.name = name THEN
            /\ last' = Reply(req, 400, "Category with this name already exists")
            /\ UNCHANGED categories
       ELSE
            /\ Cardinality(categories) < MaxCategories
            /\ categories' = categories \cup
                  {[id |-> newCategoryId, name |-> name, userId |-> userId]}
            /\ last' = [Reply(req, 201, "") EXCEPT !.result = {newCategoryId}]

\* router.put("/:id", authMiddleware, ...)
updateCategory(header, storeOk, id, name) ==
    LET req == [enterRoute("PUT /categories/:id", header, storeOk)
                   EXCEPT !.name = name, !.target = id]
        userId == req.callerId
    IN
    /\ UNCHANGED <<users, refreshTokens, now, ticks, issued, nextOpaque, preReset,
                   knowledgeItems>>
    /\ IF ~req.nextCalled THEN
            /\ last' = req
            /\ UNCHANGED categories
       ELSE IF name = "" THEN
            /\ last' = Reply(req, 400, "Category name is required")
            /\ UNCHANGED categories
       ELSE IF findCategory(id, userId) = {} THEN
            /\ last' = Reply(req, 404, "Category not found")
            /\ UNCHANGED categories
       ELSE IF \E c \in categories :
                  byUser(c, userId) /\ c.name = name /\ c.id # id THEN
            /\ last' = Reply(req, 400, "Category with this name already exists")
            /\ UNCHANGED categories
       ELSE
            /\ categories' = {IF c.id = id THEN [c EXCEPT !.name = name] ELSE c :
                                 c \in categories}
            /\ last' = [Reply(req, 200, "") EXCEPT !.result = {id}]

\* router.delete("/:id", authMiddleware, ...)
deleteCategory(header, storeOk, id) ==
    LET req == [enterRoute("DELETE /categories/:id", header, storeOk)
                   EXCEPT !.target = id]
        userId == req.callerId
    IN
    /\ UNCHANGED <<users, refreshTokens, now, ticks, issued, nextOpaque, preReset>>
    /\ IF ~req.nextCalled THEN
            /\ last' = req
            /\ UNCHANGED tables
       ELSE IF findCategory(id, userId) = {} THEN
            /\ last' = Reply(req, 404, "Category not found")
            /\ UNCHANGED tables
       ELSE
            /\ categories' = {c \in categories : c.id # id}
            \* knowledge_items_categoryId_fkey: ON DELETE SET NULL
            /\ knowledgeItems' =
                  {IF item.categoryId = id THEN [item EXCEPT !.categoryId = 0]
                   ELSE item : item \in knowledgeItems}
            /\ last' = Reply(req, 200, "Category deleted successfully")

\* The names and the :id parameters of the requests.
CategoryNames == {"work", "home", ""}

CategoryIds == 1..MaxCategories

\* Bearer credentials that authMiddleware resolves, and one that it refuses.
ResolvedHeaders ==
    {header \in Headers : authResolve(header, TRUE).next} \cup {NoHeader}

\* Users sign in by federation and use the categories router.
TenantNext ==
    \/ Deliver
    \/ Idle /\ UNCHANGED <<calls, tables>> /\ \E google \in GoogleInputs :
            googleAuth(google) /\ WithinUserSessions
    \/ Idle /\ UNCHANGED calls /\ \E header \in ResolvedHeaders :
            listCategories(header, TRUE)
    \/ Idle /\ UNCHANGED calls /\ \E header \in ResolvedHeaders, name \in CategoryNames :
            createCategory(header, TRUE, name)
    \/ Idle /\ UNCHANGED calls /\
            \E header \in ResolvedHeaders, id \in CategoryIds, name \in CategoryNames :
                updateCategory(header, TRUE, id, name)
    \/ Idle /\ UNCHANGED calls /\ \E header \in ResolvedHeaders, id \in CategoryIds :
            deleteCategory(header, TRUE, id)

SpecTenants == Init /\ [][TenantNext]_vars

\* C37 as stated: tenant isolation of categories.  A list answered for the
\* resolved caller A holds only categories whose userId is A; an update or a
\* delete that A sends for a category of another user B is answered 404 and
\* leaves the categories as they were.
C37_CategoriesIsolated ==
    [][/\ (last'.op = "GET /categories" /\ last'.nextCalled) =>
             \A c \in categories : c.id \in last'.result => c.userId = last'.user
       /\ (/\ last'.op \in {"PUT /categories/:id", "DELETE /categories/:id"}
           /\ last'.nextCalled
           /\ \E c \in categories : c.id = last'.target /\ c.userId # last'.user)
             => /\ last'.status = 404
                /\ categories' = categories]_vars

(***************************************************************************)
(* Knowledge router (src/routes/knowledge.ts) behind authMiddleware.  A    *)
(* knowledge item is [id, userId, isPublic, categoryId, subCategoryId,     *)
(* type, title, content, tags, sharedWith]; sharedWith holds the userId of *)
(* the shared_items rows of the item.  Text is a tuple of words.           *)
(***************************************************************************)
\* String.prototype.toUpperCase on the values of the type parameter.
toUpperCase(s) ==
    IF s \in {"text", "Text", "TEXT"} THEN "TEXT"
    ELSE IF s \in {"image", "IMAGE"} THEN "IMAGE"
    ELSE s

\* The case folding of mode: "insensitive" on the words of the requests.
foldCase(word) ==
    IF word \in {"Alpha", "ALPHA", "alpha"} THEN "alpha"
    ELSE IF word \in {"Beta", "beta"} THEN "beta"
    ELSE word

\* { contains: search, mode: "insensitive" }
containsInsensitive(text, search) ==
    \E i \in DOMAIN text : foldCase(text[i]) = foldCase(search)

\* tags.split(",").map(trim) of a tags parameter.
splitTags(tags) ==
    IF tags = "red,blue" THEN {"red", "blue"} ELSE {tags}

\* The OR of the access rules as the handler writes it.  An element of OR
\* whose only key has the value undefined is an element without a condition:
\* emptyOr says whether the query engine takes such an element to match every
\* row or leaves it out.  some: { userId: undefined } is some: {}, which holds
\* for an item that has a shared_items row.
accessOr(item, userId, emptyOr) ==
    \/ IF userId = undefined THEN emptyOr ELSE item.userId = userId
    \/ item.isPublic
    \/ \E shared \in item.sharedWith : userId = undefined \/ shared = userId

\* The OR that the handler assigns when the request has a search term.
searchOr(item, search) ==
    \/ containsInsensitive(item.title, search)
    \/ containsInsensitive(item.content, search)
    \/ search \in item.tags

\* The where clause of the list handler, applied to one row: where.OR is the
\* access rules, or the search conditions once `search` is set.
listWhere(item, userId, query, emptyOr) ==
    /\ IF query.search # ""
       THEN searchOr(item, query.search)
       ELSE accessOr(item, userId, emptyOr)
    /\ query.categoryId # 0 => item.categoryId = query.categoryId
    /\ query.subCategoryId # 0 => item.subCategoryId = query.subCategoryId
    /\ query.type # "" => item.type = toUpperCase(query.type)
    /\ query.isPublic # "" => item.isPublic = (query.isPublic = "true")
    /\ query.tags # "" => item.tags \cap splitTags(query.tags) # {}

\* router.get("/", authMiddleware, ...) with the default page and limit.
listKnowledge(header, storeOk, query, emptyOr) ==
    LET req == [enterRoute("GET /knowledge", header, storeOk) EXCEPT !.query = query]
    IN
    /\ UNCHANGED <<users, refreshTokens, now, ticks, issued, nextOpaque, preReset,
                   tables>>
    /\ last' = IF ~req.nextCalled THEN req
               ELSE [Reply(req, 200, "")
                        EXCEPT !.result =
                           {item.id : item \in
                               {row \in knowledgeItems :
                                   listWhere(row, req.callerId, query, emptyOr)}}]

\* router.post("/", authMiddleware, upload.single("file"), ...) for a text
\* item without category.
createKnowledge(header, storeOk, title, isPublic) ==
    LET req == enterRoute("POST /knowledge", header, storeOk)
        userId == req.callerId
        id == Cardinality(knowledgeItems) + 1
    IN
    /\ UNCHANGED <<users, refreshTokens, now, ticks, issued, nextOpaque, preReset,
                   categories>>
    /\ IF ~req.nextCalled THEN
            /\ last' = req
            /\ UNCHANGED knowledgeItems
       ELSE IF title = <<>> THEN
            /\ last' = Reply(req, 400, "Title is required")
            /\ UNCHANGED knowledgeItems
       ELSE IF userId = undefined THEN
            \* prisma.knowledgeItem.create rejects data without userId
            /\ last' = Reply(req, 500, "Failed to create knowledge item")
            /\ UNCHANGED knowledgeItems
       ELSE
            /\ Cardinality(knowledgeItems) < MaxItems
            /\ knowledgeItems' = knowledgeItems \cup
                  {[id |-> id, userId |-> userId, isPublic |-> isPublic = "true",
                    categoryId |-> 0, subCategoryId |-> 0, type |-> "TEXT",
                    title |-> title, content |-> <<"note">>, tags |-> {},
                    sharedWith |-> {}]}
            /\ last' = [Reply(req, 201, "") EXCEPT !.result = {id}]

\* The rows that the table of knowledge items can hold under an id for two
\* users: an item is not shared with its owner.
StoredItems(id) ==
    {item \in
        {[id |-> id, userId |-> userId, isPublic |-> isPublic,
          categoryId |-> categoryId, subCategoryId |-> 0, type |-> "TEXT",
          title |-> title, content |-> <<"note">>, tags |-> tags,
          sharedWith |-> sharedWith] :
            userId \in 1..2, isPublic \in BOOLEAN,
            categoryId \in {0, 1}, title \in {<<"alpha">>, <<"beta">>},
            tags \in {{}, {"red"}}, sharedWith \in SUBSET (1..2)} :
        item.userId \notin item.sharedWith}

\* The contents of the table: up to MaxItems rows with the ids 1, 2, ...
StoredTables ==
    UNION {{{row[id] : id \in 1..n} :
               row \in {f \in [1..n -> UNION {StoredItems(id) : id \in 1..n}] :
                           \A id \in 1..n : f[id].id = id}} :
           n \in 0..MaxItems}

\* The query strings of the list requests.
ListQueries ==
    [categoryId : {0, 1}, subCategoryId : {0, 1}, type : {"", "text"},
     search : {"", "Alpha"}, tags : {"", "red"}, isPublic : {"", "true", "false"}]

\* The store holds two federated accounts and knowledge items that they own,
\* with unique ids.
KnowledgeInit ==
    /\ users = <<NewUser(EmailA, "User", NoHash, TRUE, 0, -1, "g1"),
                 NewUser(EmailB, "User", NoHash, TRUE, 0, -1, "g2")>>
    /\ refreshTokens = EmptyBag
    /\ now = 0
    /\ ticks = 0
    /\ issued = {}
    /\ nextOpaque = 1
    /\ last = NoRequest
    /\ preReset = {}
    /\ calls = [c \in 1..MaxCalls |-> NoCall]
    /\ categories = {}
    /\ knowledgeItems \in StoredTables

\* The two accounts sign in and use the knowledge router.
KnowledgeNext ==
    \/ Deliver
    \/ Idle /\ UNCHANGED <<calls, tables>> /\
            \E google \in {in \in GoogleInputs : in.kind = "id" /\ in.email # NoEmail} :
                googleAuth(google) /\ WithinUserSessions
    \/ Idle /\ UNCHANGED calls /\
            \E header \in ResolvedHeaders, query \in ListQueries, emptyOr \in BOOLEAN :
                listKnowledge(header, TRUE, query, emptyOr)
    \/ Idle /\ UNCHANGED calls /\
            \E header \in ResolvedHeaders, title \in {<<>>, <<"alpha">>} :
                createKnowledge(header, TRUE, title, "false")

SpecKnowledge == KnowledgeInit /\ [][KnowledgeNext]_vars

====
